---- MODULE Spec2Model ----
(***************************************************************************)
(* tweety-backend: the session/reaction consistency layer.                 *)
(*                                                                         *)
(* The server is modelled as a set of request slots.  A request advances   *)
(* one `await` at a time: an action executes the awaited SQL statement     *)
(* atomically on the store and then runs the JavaScript continuation up    *)
(* to the next await (or to the response).  Between two actions of one     *)
(* request any other request may run and the clock may advance.            *)
(*                                                                         *)
(* Time is Date.now(), in milliseconds since the start of the model.       *)
(***************************************************************************)
EXTENDS Integers, Sequences, FiniteSets, TLC

VARIABLES
    now,          \* Date.now(), milliseconds
    nextUuid,     \* the next value uuidv4() returns (uuids are modelled as fresh numbers)
    JWT_SECRET,   \* config.JWT_SECRET / process.env.JWT_SECRET, "" when not set
    users,        \* table users
    user_tokens,  \* table user_tokens: the token ledger
    events,       \* table events
    event_likes,  \* table event_likes: the reaction ledger
    issued,       \* the token strings clients have received from a login
    revoked,      \* the token strings for which a revokeToken call has completed
    pc,           \* per request: the await it is suspended at, "idle" or "done"
    rq,           \* per request: what the client sent
    loc,          \* per request: the handler's local variables
    resp,         \* per request: the HTTP response
    log,          \* per request: the calls made for it so far, in order
    cache,        \* the Map of createCache: per key, { expires, value } or nothing
    cpc,          \* per /v1/poznan request: "idle", "fetch" (awaiting axios.get) or "done"
    creq,         \* per /v1/poznan request: method and url
    cres,         \* per /v1/poznan request: the HTTP response
    clog,         \* per /v1/poznan request: what ran for it so far, in order
    dbInstance,   \* db.js: the connection, or null
    dbPromise,    \* db.js: the promise of the attempt in flight or done, or null
    attempt,      \* db.js: the latest run of the async function inside init
    call,         \* per caller of db.init: the promise it was given and how it settled
    got,          \* per caller: what its last getDb() did
    dblog         \* the files open() was called for and the schema runs, in order

\* The state of the /v1/poznan proxy.
cacheVars == <<cache, cpc, creq, cres, clog>>

\* The state of the module db.js and of the callers of its functions.
dbVars == <<dbInstance, dbPromise, attempt, call, got, dblog>>

vars == <<now, nextUuid, JWT_SECRET, users, user_tokens, events, event_likes,
          issued, revoked, pc, rq, loc, resp, log, cacheVars, dbVars>>

(***************************************************************************)
(* Bounds of the model.                                                    *)
(***************************************************************************)
MaxReq == 2
\* concurrent request slots

MaxSessions == 2
\* logins (tokens signed) in one behaviour

MaxUuid == 3
\* uuids drawn by event and reaction writes in one behaviour

MaxSmallTicks == 1
\* half-second clock steps

MaxBigTicks == 1
\* clock steps of one validity window minus half a second

Req == 1..MaxReq

\* The ids uuidv4() gives to users.
Users == {"u1", "u2"}

(***************************************************************************)
(* Program constants.                                                      *)
(***************************************************************************)
TOKEN_EXPIRES_IN == 7 * 24 * 60 * 60

\* The clock advances by half a second, or by a validity window less half a second.
SmallStep == 1000 \div 2

BigStep == TOKEN_EXPIRES_IN * 1000 - SmallStep

(***************************************************************************)
(* Dates.  new Date(ms).toISOString() renders an instant as text with      *)
(* millisecond precision: the whole seconds and the milliseconds field.    *)
(***************************************************************************)
toISOString(ms) == [sec |-> ms \div 1000, msec |-> ms % 1000]

getTime(iso) == iso.sec * 1000 + iso.msec

(***************************************************************************)
(* JSON web tokens.  A token string is a payload with a MAC over it; the   *)
(* MAC is a deterministic function of the key and the signed payload.      *)
(***************************************************************************)
NoPayload == [sub |-> "", jti |-> 0, iat |-> 0, exp |-> 0]

HMAC(key, payload) == [key |-> key, over |-> payload]

jwt_sign(payload, secret) ==
    [text |-> "jwt", payload |-> payload, mac |-> HMAC(secret, payload)]

\* Strings that are not a JWT: the empty string and some other text.
EmptyString == [text |-> "", payload |-> NoPayload, mac |-> HMAC("", NoPayload)]

Garbage == [text |-> "garbage", payload |-> NoPayload, mac |-> HMAC("", NoPayload)]

jwt_verify_IgnoreExpiration(token, secret, t) ==
    /\ secret # ""
    /\ token.text = "jwt"
    /\ token.mac = HMAC(secret, token.payload)

\* jwt.verify(token, secret) at time t: TRUE when it returns the payload, FALSE
\* when it throws (no secret, malformed, bad signature, or exp reached).
jwt_verify(token, secret, t) ==
    /\ secret # ""
    /\ token.text = "jwt"
    /\ token.mac = HMAC(secret, token.payload)
    /\ (t \div 1000) < token.payload.exp

(***************************************************************************)
(* Rows and SQL statements on user_tokens.                                 *)
(***************************************************************************)
NoRow == [id |-> 0, user_id |-> "", token |-> EmptyString,
          expires_at |-> toISOString(0), issued_at |-> toISOString(0)]

\* The synchronous part of generateAndStoreToken: the row it will insert.
tokenRow_ExpiryFromInsert(userId, t, uuid, secret) ==
    LET issuedAt  == t \div 1000
        expiresAt == issuedAt + TOKEN_EXPIRES_IN
        payload   == [sub |-> userId, jti |-> uuid, iat |-> issuedAt, exp |-> expiresAt]
    IN  [id         |-> uuid,
         user_id    |-> userId,
         token      |-> jwt_sign(payload, secret),
         expires_at |-> toISOString(t + TOKEN_EXPIRES_IN * 1000),
         issued_at  |-> toISOString(t)]

tokenRow(userId, t, uuid, secret) ==
    LET issuedAt  == t \div 1000
        expiresAt == issuedAt + TOKEN_EXPIRES_IN
        payload   == [sub |-> userId, jti |-> uuid, iat |-> issuedAt, exp |-> expiresAt]
    IN  [id         |-> uuid,
         user_id    |-> userId,
         token      |-> jwt_sign(payload, secret),
         expires_at |-> toISOString(expiresAt * 1000),
         issued_at  |-> toISOString(issuedAt * 1000)]

\* SELECT user_id, expires_at FROM user_tokens WHERE id = ? AND token = ?
selectToken(table, id, token) ==
    {row \in table : row.id = id /\ row.token = token}

revokeToken_ByUser(table, token) ==
    {row \in table : \A gone \in table : gone.token = token => row.user_id # gone.user_id}

revokeToken_Nothing(table, token) == table

\* DELETE FROM user_tokens WHERE token = ?
revokeToken(table, token) ==
    {row \in table : row.token # token}

revokeThrows_WhenAbsent(table, token) ==
    \A row \in table : row.token # token

\* Whether revokeToken throws: the DELETE succeeds whatever it matches.
revokeThrows(table, token) == FALSE

(***************************************************************************)
(* Requests.                                                               *)
(***************************************************************************)
\* The Authorization header, as header.split(" ") sees it: the number of parts,
\* the first part and the second.  An absent header is "".
NoHeader == [parts |-> 1, first |-> "", second |-> EmptyString]

Scheme(first, token) == [parts |-> 2, first |-> first, second |-> token]

\* What a client can put after the scheme: a token it was given, the same payload
\* signed with a key of its own, or text that is no JWT.
Resigned(token) == jwt_sign(token.payload, "attacker")

Credentials ==
    issued \cup {Resigned(t) : t \in issued} \cup {Garbage}

\* The headers clients send: none, a credential under the bearer scheme, or a
\* token they were given under another scheme.
Headers ==
    {NoHeader} \cup {Scheme("Bearer", c) : c \in Credentials}
               \cup {Scheme("Basic", c) : c \in issued}

\* value.timestamp of GET /events: absent, or the Date Joi made of the ISO text.
NoDate == [given |-> FALSE, ms |-> 0]

\* bcrypt.hash(plain, 10): text that carries the salt it drew and the digest
\* of the password under that salt.
bcrypt_hash(plain, salt) == [salt |-> salt, digest |-> <<salt, plain>>]

\* bcrypt.compare(plain, hash): hashes plain under the salt found in hash.
bcrypt_compare(plain, hash) == hash.digest = <<hash.salt, plain>>

Salts == {"s1"}

NoUser == [id |-> "", username |-> "", email |-> "", password_hash |-> bcrypt_hash("", "")]

\* The body of POST /events is modelled by the keys it carries.
NoKeys == {}

NoRq == [kind |-> "", header |-> NoHeader, userId |-> "", eventId |-> 0, reaction |-> 0,
         type |-> "", timestamp |-> NoDate, keys |-> NoKeys,
         username |-> "", email |-> "", usernameOrEmail |-> "", password |-> ""]

NoEvent == [id |-> 0, stopId |-> "", type |-> "", timestamp |-> toISOString(0),
            created_by |-> ""]

NoLike == [id |-> 0, event_id |-> 0, user_id |-> "", reaction |-> 0,
           created_at |-> toISOString(0)]

NoResult == [returned |-> FALSE, eventExists |-> FALSE, updated |-> FALSE]

NoLoc == [token |-> EmptyString, row |-> NoRow,
          existing |-> NoLike, like |-> NoLike, result |-> NoResult,
          since |-> toISOString(0), events |-> <<>>,
          event |-> NoEvent, user |-> NoUser]

NoResp == [status |-> 0, error |-> "", likes |-> 0, dislikes |-> 0, events |-> <<>>]

Status(code, error) ==
    [status |-> code, error |-> error, likes |-> 0, dislikes |-> 0, events |-> <<>>]

MissingCredential == Status(401, "Missing or invalid Authorization header")

InvalidSignatureOrExpired == Status(401, "Invalid or expired token")

NotRecognized == Status(401, "Token not recognized or revoked")

Ok == Status(200, "")

(***************************************************************************)
(* authenticateJWT.                                                        *)
(***************************************************************************)
\* header.startsWith("Bearer ")
startsWithBearer(header) == header.parts >= 2 /\ header.first = "Bearer"

Outcome(out, calls) == [out |-> out, calls |-> calls]

authSync_LookupFirst(header, secret, t) ==
    IF ~startsWithBearer(header) THEN Outcome("missing", <<>>)
    ELSE Outcome("lookup", <<>>)

authSync_NoSchemeCheck(header, secret, t) ==
    IF ~jwt_verify(header.second, secret, t) THEN Outcome("invalid", <<"jwt.verify">>)
    ELSE Outcome("lookup", <<"jwt.verify">>)

\* The part of authenticateJWT before its await: the header check, then
\* jwt.verify; what it decides and the calls it made.
authSync(header, secret, t) ==
    IF ~startsWithBearer(header) THEN Outcome("missing", <<>>)
    ELSE IF ~jwt_verify(header.second, secret, t) THEN Outcome("invalid", <<"jwt.verify">>)
    ELSE Outcome("lookup", <<"jwt.verify">>)

authResume_TrustSignature(rows) == "next"

\* The part after the await: what it does with the rows the SELECT returned.
authResume(rows) == IF rows = {} THEN "reject" ELSE "next"

\* The routes behind authenticateJWT.
Protected == {"me", "logout"}

ProtectedWrites == {"create", "like", "dislike"}

\* The await a route handler suspends at first when it has nothing to decide
\* before it.
FirstAwait(kind) ==
    IF kind = "logout" THEN "revoke"
    ELSE IF kind = "me" THEN "findUser"
    ELSE "selEvent"

\* The reaction a route passes to likeOrDislikeEvent: 1 for /like, -1 for /dislike.
Reaction(kind) == IF kind = "like" THEN 1 ELSE -1

reqUser_FirstUser(payload) == "u1"

\* req.user = { id: payload.sub }
reqUser(payload) == payload.sub

\* SQL NULL, which the driver binds for a parameter that is undefined.
Null == "NULL"

\* The bodies clients post to /events: the fields eventCreateSchema names, or
\* the fields createEvent reads.
Bodies == {{"otherName", "otherId", "type"}, {"stopId", "type"}}

\* eventCreateSchema.validate(req.body): otherName, otherId and type are
\* required, description is optional, any other key is an error.
validationFails(keys) ==
    \/ ~({"otherName", "otherId", "type"} \subseteq keys)
    \/ ~(keys \subseteq {"otherName", "otherId", "type", "description"})

\* What createEvent reads from the validated value.
eventDataOf(value) ==
    [stopId |-> IF "stopId" \in value THEN "stop" ELSE Null,
     type   |-> IF "type" \in value THEN "info" ELSE Null]

\* The row createEvent inserts: a fresh uuid, the eventData and the current
\* time as ISO text.
eventRow(data, createdBy, t, uuid) ==
    [id |-> uuid, stopId |-> data.stopId, type |-> data.type,
     timestamp |-> toISOString(t), created_by |-> createdBy]

\* A protected request arrives: authenticateJWT runs to its await or answers 401.
AuthBegin(r, kind, header, eventId, keys) ==
    LET sync == authSync(header, JWT_SECRET, now)
        outcome == sync.out
    IN
    /\ pc[r] \in {"idle", "done"}
    /\ rq' = [rq EXCEPT ![r] =
               [NoRq EXCEPT !.kind = kind, !.header = header, !.eventId = eventId,
                            !.keys = keys,
                            !.reaction = IF kind \in {"like", "dislike"}
                                         THEN Reaction(kind) ELSE NoRq.reaction]]
    /\ loc' = [loc EXCEPT ![r] =
                 IF outcome = "lookup" THEN [NoLoc EXCEPT !.token = header.second]
                 ELSE NoLoc]
    /\ log' = [log EXCEPT ![r] = sync.calls]
    /\ pc' = [pc EXCEPT ![r] = IF outcome = "lookup" THEN "tokenLookup" ELSE "done"]
    /\ resp' = [resp EXCEPT ![r] =
                 IF outcome = "missing" THEN MissingCredential
                 ELSE IF outcome = "invalid" THEN InvalidSignatureOrExpired
                 ELSE NoResp]
    /\ UNCHANGED <<now, nextUuid, JWT_SECRET, user_tokens, events, event_likes,
                   issued, revoked>>
    /\ UNCHANGED <<users, cacheVars, dbVars>>

AuthLookup_RevokeOnUse(r) ==
    LET rows == selectToken(user_tokens, loc[r].token.payload.jti, loc[r].token)
        outcome == authResume(rows)
        value == rq[r].keys
        userId == reqUser(loc[r].token.payload)
    IN
    /\ pc[r] = "tokenLookup"
    /\ IF outcome # "next"
       THEN /\ log' = [log EXCEPT ![r] = Append(log[r], "user_tokens.select")]
            /\ loc' = [loc EXCEPT ![r] = NoLoc]
            /\ pc' = [pc EXCEPT ![r] = "done"]
            /\ resp' = [resp EXCEPT ![r] = NotRecognized]
            /\ UNCHANGED <<rq, nextUuid>>
       ELSE /\ log' = [log EXCEPT ![r] = log[r] \o <<"user_tokens.select", "next">>]
            /\ rq' = [rq EXCEPT ![r].userId = userId]
            /\ IF rq[r].kind # "create"
               THEN /\ pc' = [pc EXCEPT ![r] = FirstAwait(rq[r].kind)]
                    /\ UNCHANGED <<loc, resp, nextUuid>>
               ELSE IF validationFails(value)
               THEN /\ pc' = [pc EXCEPT ![r] = "done"]
                    /\ loc' = [loc EXCEPT ![r] = NoLoc]
                    /\ resp' = [resp EXCEPT ![r] = Status(400, "Validation failed")]
                    /\ UNCHANGED nextUuid
               ELSE /\ nextUuid <= MaxUuid
                    /\ nextUuid' = nextUuid + 1
                    /\ loc' = [loc EXCEPT ![r].event =
                                 eventRow(eventDataOf(value), userId, now, nextUuid)]
                    /\ pc' = [pc EXCEPT ![r] = "insertEvent"]
                    /\ UNCHANGED resp
    /\ user_tokens' = user_tokens \ rows
    /\ UNCHANGED <<now, JWT_SECRET, events, event_likes, issued, revoked>>
    /\ UNCHANGED <<users, cacheVars, dbVars>>

\* The SELECT on user_tokens returns: 401, or req.user is set, next() is called
\* and the route handler runs to its first await or to its answer.
AuthLookup(r) ==
    LET rows == selectToken(user_tokens, loc[r].token.payload.jti, loc[r].token)
        outcome == authResume(rows)
        value == rq[r].keys
        userId == reqUser(loc[r].token.payload)
    IN
    /\ pc[r] = "tokenLookup"
    /\ IF outcome # "next"
       THEN /\ log' = [log EXCEPT ![r] = Append(log[r], "user_tokens.select")]
            /\ loc' = [loc EXCEPT ![r] = NoLoc]
            /\ pc' = [pc EXCEPT ![r] = "done"]
            /\ resp' = [resp EXCEPT ![r] = NotRecognized]
            /\ UNCHANGED <<rq, nextUuid>>
       ELSE /\ log' = [log EXCEPT ![r] = log[r] \o <<"user_tokens.select", "next">>]
            /\ rq' = [rq EXCEPT ![r].userId = userId]
            /\ IF rq[r].kind # "create"
               THEN /\ pc' = [pc EXCEPT ![r] = FirstAwait(rq[r].kind)]
                    /\ UNCHANGED <<loc, resp, nextUuid>>
               ELSE IF validationFails(value)
               THEN /\ pc' = [pc EXCEPT ![r] = "done"]
                    /\ loc' = [loc EXCEPT ![r] = NoLoc]
                    /\ resp' = [resp EXCEPT ![r] = Status(400, "Validation failed")]
                    /\ UNCHANGED nextUuid
               ELSE /\ nextUuid <= MaxUuid
                    /\ nextUuid' = nextUuid + 1
                    /\ loc' = [loc EXCEPT ![r].event =
                                 eventRow(eventDataOf(value), userId, now, nextUuid)]
                    /\ pc' = [pc EXCEPT ![r] = "insertEvent"]
                    /\ UNCHANGED resp
    /\ UNCHANGED <<now, JWT_SECRET, user_tokens, events, event_likes, issued, revoked>>
    /\ UNCHANGED <<users, cacheVars, dbVars>>

\* POST /logout after next(): revokeToken's DELETE, then { success: true }.
Logout(r) ==
    /\ pc[r] = "revoke"
    /\ log' = [log EXCEPT ![r] = Append(log[r], "user_tokens.delete")]
    /\ IF revokeThrows(user_tokens, loc[r].token)
       THEN /\ resp' = [resp EXCEPT ![r] = Status(500, "revokeToken failed")]
            /\ UNCHANGED <<user_tokens, revoked>>
       ELSE /\ user_tokens' = revokeToken(user_tokens, loc[r].token)
            /\ revoked' = revoked \cup {loc[r].token}
            /\ resp' = [resp EXCEPT ![r] = Ok]
    /\ pc' = [pc EXCEPT ![r] = "done"]
    /\ loc' = [loc EXCEPT ![r] = NoLoc]
    /\ UNCHANGED <<now, nextUuid, JWT_SECRET, events, event_likes, issued, rq>>
    /\ UNCHANGED <<users, cacheVars, dbVars>>

\* SELECT id, username, email, created_at FROM users WHERE id = ?
findUserById(table, id) == {u \in table : u.id = id}

\* GET /me after next(): findUserById, then the profile.
Me(r) ==
    /\ pc[r] = "findUser"
    /\ log' = [log EXCEPT ![r] = Append(log[r], "users.select")]
    /\ resp' = [resp EXCEPT ![r] =
                 IF findUserById(users, rq[r].userId) # {} THEN Ok
                 ELSE Status(404, "User not found")]
    /\ pc' = [pc EXCEPT ![r] = "done"]
    /\ loc' = [loc EXCEPT ![r] = NoLoc]
    /\ UNCHANGED <<now, nextUuid, JWT_SECRET, user_tokens, events, event_likes,
                   issued, revoked, rq>>
    /\ UNCHANGED <<users, cacheVars, dbVars>>

(***************************************************************************)
(* generateAndStoreToken, as POST /login calls it for a verified user.     *)
(***************************************************************************)
LoginBegin_NoSecretCheck(r, userId) ==
    /\ pc[r] \in {"idle", "done"}
    /\ nextUuid <= MaxSessions
    /\ nextUuid' = nextUuid + 1
    /\ rq' = [rq EXCEPT ![r] = [NoRq EXCEPT !.kind = "login", !.userId = userId]]
    /\ pc' = [pc EXCEPT ![r] = "tokenInsert"]
    /\ resp' = [resp EXCEPT ![r] = NoResp]
    /\ loc' = [loc EXCEPT ![r] =
                 [NoLoc EXCEPT !.row = tokenRow(userId, now, nextUuid, JWT_SECRET)]]
    /\ log' = [log EXCEPT ![r] = <<"jwt.sign">>]
    /\ UNCHANGED <<now, JWT_SECRET, user_tokens, events, event_likes, issued, revoked>>
    /\ UNCHANGED <<users, cacheVars, dbVars>>

LoginBegin(r, userId) ==
    /\ pc[r] \in {"idle", "done"}
    /\ nextUuid <= MaxSessions
    /\ nextUuid' = nextUuid + 1
    /\ rq' = [rq EXCEPT ![r] = [NoRq EXCEPT !.kind = "login", !.userId = userId]]
    /\ IF JWT_SECRET = ""
       THEN /\ pc' = [pc EXCEPT ![r] = "done"]
            /\ resp' = [resp EXCEPT ![r] = Status(500, "JWT_SECRET is not set in environment.")]
            /\ loc' = [loc EXCEPT ![r] = NoLoc]
            /\ log' = [log EXCEPT ![r] = <<>>]
       ELSE /\ pc' = [pc EXCEPT ![r] = "tokenInsert"]
            /\ resp' = [resp EXCEPT ![r] = NoResp]
            /\ loc' = [loc EXCEPT ![r] =
                         [NoLoc EXCEPT !.row = tokenRow(userId, now, nextUuid, JWT_SECRET)]]
            /\ log' = [log EXCEPT ![r] = <<"jwt.sign">>]
    /\ UNCHANGED <<now, JWT_SECRET, user_tokens, events, event_likes, issued, revoked>>
    /\ UNCHANGED <<users, cacheVars, dbVars>>

TokenInsert_ReturnsUnstored(r) ==
    /\ pc[r] = "tokenInsert"
    /\ log' = [log EXCEPT ![r] = Append(log[r], "user_tokens.insert")]
    /\ issued' = issued \cup {loc[r].row.token}
    /\ resp' = [resp EXCEPT ![r] = Ok]
    /\ pc' = [pc EXCEPT ![r] = "done"]
    /\ loc' = [loc EXCEPT ![r] = NoLoc]
    /\ UNCHANGED <<now, nextUuid, JWT_SECRET, user_tokens, events, event_likes, revoked, rq>>
    /\ UNCHANGED <<users, cacheVars, dbVars>>

\* The INSERT into user_tokens (id is the primary key), then the token is
\* returned and sent to the client.
TokenInsert(r) ==
    /\ pc[r] = "tokenInsert"
    /\ log' = [log EXCEPT ![r] = Append(log[r], "user_tokens.insert")]
    /\ IF \E row \in user_tokens : row.id = loc[r].row.id
       THEN /\ resp' = [resp EXCEPT ![r] = Status(500, "SQLITE_CONSTRAINT")]
            /\ UNCHANGED <<user_tokens, issued>>
       ELSE /\ user_tokens' = user_tokens \cup {loc[r].row}
            /\ issued' = issued \cup {loc[r].row.token}
            /\ resp' = [resp EXCEPT ![r] = Ok]
    /\ pc' = [pc EXCEPT ![r] = "done"]
    /\ loc' = [loc EXCEPT ![r] = NoLoc]
    /\ UNCHANGED <<now, nextUuid, JWT_SECRET, events, event_likes, revoked, rq>>
    /\ UNCHANGED <<users, cacheVars, dbVars>>

(***************************************************************************)
(* Events and reactions.                                                   *)
(***************************************************************************)
MaxEvents == 1
\* events created in one behaviour

\* An id no event has (the tests ask for "doesnotexist").
UnknownEvent == 0

\* The eventData createEvent is called with.
EventData(stopId, type) == [stopId |-> stopId, type |-> type]

\* createEvent: the INSERT into events is its only await; nothing it does is
\* visible before the row is there, so it is one step.
createEvent(data, createdBy) ==
    /\ Cardinality(events) < MaxEvents
    /\ nextUuid <= MaxUuid
    /\ nextUuid' = nextUuid + 1
    /\ events' = events \cup {eventRow(data, createdBy, now, nextUuid)}
    /\ UNCHANGED <<now, JWT_SECRET, user_tokens, event_likes, issued, revoked,
                   pc, rq, loc, resp, log>>
    /\ UNCHANGED <<users, cacheVars, dbVars>>

\* The constraints of events an INSERT can violate: PRIMARY KEY (id) and the
\* NOT NULL of stopId and type.
eventConstraintFails(table, row) ==
    \/ \E old \in table : old.id = row.id
    \/ row.stopId = Null
    \/ row.type = Null

\* POST /events after validation: the INSERT of createEvent executes; a
\* constraint failure is thrown to the error handler (500), otherwise 201.
EventInsert(r) ==
    /\ pc[r] = "insertEvent"
    /\ log' = [log EXCEPT ![r] = Append(log[r], "events.insert")]
    /\ IF eventConstraintFails(events, loc[r].event)
       THEN /\ resp' = [resp EXCEPT ![r] = Status(500, "SQLITE_CONSTRAINT")]
            /\ UNCHANGED events
       ELSE /\ events' = events \cup {loc[r].event}
            /\ resp' = [resp EXCEPT ![r] = Status(201, "")]
    /\ pc' = [pc EXCEPT ![r] = "done"]
    /\ loc' = [loc EXCEPT ![r] = NoLoc]
    /\ UNCHANGED <<now, nextUuid, JWT_SECRET, user_tokens, event_likes, issued,
                   revoked, rq>>
    /\ UNCHANGED <<users, cacheVars, dbVars>>

selectEvent_AnyEvent(table, eventId) == table

\* SELECT id FROM events WHERE id = ?
selectEvent(table, eventId) == {e \in table : e.id = eventId}

\* SELECT id, reaction FROM event_likes WHERE event_id = ? AND user_id = ?
selectExisting(table, eventId, userId) ==
    {row \in table : row.event_id = eventId /\ row.user_id = userId}

likeBranch_AlwaysUpdate(existing, reaction) ==
    IF existing = {} THEN "insert" ELSE "update"

likeBranch_NeverUpdate(existing, reaction) ==
    IF existing = {} THEN "insert" ELSE "same"

\* The branch likeOrDislikeEvent takes on what the SELECT returned.
likeBranch(existing, reaction) ==
    IF existing = {} THEN "insert"
    ELSE IF \E row \in existing : row.reaction # reaction THEN "update"
    ELSE "same"

constraintFails_IdOnly(table, row) ==
    \E old \in table : old.id = row.id

\* The constraints of event_likes an INSERT can violate: PRIMARY KEY (id) and
\* UNIQUE (event_id, user_id).
constraintFails(table, row) ==
    \E old \in table :
        \/ old.id = row.id
        \/ old.event_id = row.event_id /\ old.user_id = row.user_id

updateLike_TimestampOnly(table, reaction, createdAt, id) ==
    {IF row.id = id THEN [row EXCEPT !.created_at = createdAt] ELSE row : row \in table}

updateLike_WholeEvent(table, reaction, createdAt, id) ==
    LET touched == {row.event_id : row \in {t \in table : t.id = id}} IN
    {IF row.event_id \in touched
     THEN [row EXCEPT !.reaction = reaction, !.created_at = createdAt]
     ELSE row : row \in table}

updateLike_DeleteOnFlip(table, reaction, createdAt, id) ==
    {row \in table : row.id # id}

\* UPDATE event_likes SET reaction = ?, created_at = ? WHERE id = ?
updateLike(table, reaction, createdAt, id) ==
    {IF row.id = id THEN [row EXCEPT !.reaction = reaction, !.created_at = createdAt]
     ELSE row : row \in table}

getEventReactions_CountsAll(table, eventId) ==
    LET rows == {row \in table : row.event_id = eventId} IN
    [likes |-> Cardinality(rows), dislikes |-> Cardinality(rows)]

\* getEventReactions: the two conditional sums over the event's rows; SUM over
\* no rows is NULL, which `|| 0` turns into 0.
getEventReactions(table, eventId) ==
    LET rows == {row \in table : row.event_id = eventId} IN
    [likes    |-> IF rows = {} THEN 0
                  ELSE Cardinality({row \in rows : row.reaction = 1}),
     dislikes |-> IF rows = {} THEN 0
                  ELSE Cardinality({row \in rows : row.reaction = -1})]

Returned(eventExists, updated) ==
    [returned |-> TRUE, eventExists |-> eventExists, updated |-> updated]

\* POST /:id/like or /:id/dislike, after authenticateJWT resolved the user: the
\* handler calls likeOrDislikeEvent, which suspends at its first SELECT.
LikeBegin(r, kind, eventId, userId) ==
    /\ pc[r] \in {"idle", "done"}
    /\ rq' = [rq EXCEPT ![r] = [NoRq EXCEPT !.kind = kind, !.eventId = eventId,
                                             !.userId = userId,
                                             !.reaction = Reaction(kind)]]
    /\ pc' = [pc EXCEPT ![r] = "selEvent"]
    /\ loc' = [loc EXCEPT ![r] = NoLoc]
    /\ resp' = [resp EXCEPT ![r] = NoResp]
    /\ log' = [log EXCEPT ![r] = <<>>]
    /\ UNCHANGED <<now, nextUuid, JWT_SECRET, user_tokens, events, event_likes,
                   issued, revoked>>
    /\ UNCHANGED <<users, cacheVars, dbVars>>

\* The SELECT on events returns: { eventExists: false } and 404, or on to the
\* SELECT on event_likes.
SelEvent(r) ==
    LET event == selectEvent(events, rq[r].eventId) IN
    /\ pc[r] = "selEvent"
    /\ log' = [log EXCEPT ![r] = Append(log[r], "events.select")]
    /\ IF event = {}
       THEN /\ loc' = [loc EXCEPT ![r].result = Returned(FALSE, FALSE)]
            /\ resp' = [resp EXCEPT ![r] = Status(404, "Event not found")]
            /\ pc' = [pc EXCEPT ![r] = "done"]
       ELSE /\ pc' = [pc EXCEPT ![r] = "selExisting"]
            /\ UNCHANGED <<loc, resp>>
    /\ UNCHANGED <<now, nextUuid, JWT_SECRET, user_tokens, events, event_likes,
                   issued, revoked, rq>>
    /\ UNCHANGED <<users, cacheVars, dbVars>>

\* The SELECT on event_likes returns: the INSERT or the UPDATE is sent with its
\* arguments (a fresh uuid, the current time), or the call returns at once and
\* the handler goes on to getEventReactions.
SelExisting(r) ==
    LET existing == selectExisting(event_likes, rq[r].eventId, rq[r].userId)
        branch == likeBranch(existing, rq[r].reaction)
        old == IF existing = {} THEN NoLike ELSE CHOOSE row \in existing : TRUE
    IN
    /\ pc[r] = "selExisting"
    /\ log' = [log EXCEPT ![r] = Append(log[r], "event_likes.select")]
    /\ IF branch = "insert"
       THEN /\ nextUuid <= MaxUuid
            /\ nextUuid' = nextUuid + 1
            /\ loc' = [loc EXCEPT ![r].like =
                         [id |-> nextUuid, event_id |-> rq[r].eventId,
                          user_id |-> rq[r].userId, reaction |-> rq[r].reaction,
                          created_at |-> toISOString(now)]]
            /\ pc' = [pc EXCEPT ![r] = "insertLike"]
       ELSE IF branch = "update"
       THEN /\ loc' = [loc EXCEPT ![r].existing = old,
                                  ![r].like = [old EXCEPT !.reaction = rq[r].reaction,
                                                          !.created_at = toISOString(now)]]
            /\ pc' = [pc EXCEPT ![r] = "updateLike"]
            /\ UNCHANGED nextUuid
       ELSE /\ loc' = [loc EXCEPT ![r].result = Returned(TRUE, FALSE)]
            /\ pc' = [pc EXCEPT ![r] = "getReactions"]
            /\ UNCHANGED nextUuid
    /\ UNCHANGED <<now, JWT_SECRET, user_tokens, events, event_likes,
                   issued, revoked, rq, resp>>
    /\ UNCHANGED <<users, cacheVars, dbVars>>

InsertLike_Upsert(r) ==
    /\ pc[r] = "insertLike"
    /\ log' = [log EXCEPT ![r] = Append(log[r], "event_likes.insert")]
    /\ event_likes' = {row \in event_likes : ~constraintFails({row}, loc[r].like)}
                          \cup {loc[r].like}
    /\ loc' = [loc EXCEPT ![r] = [NoLoc EXCEPT !.result = Returned(TRUE, FALSE)]]
    /\ pc' = [pc EXCEPT ![r] = "getReactions"]
    /\ UNCHANGED <<now, nextUuid, JWT_SECRET, user_tokens, events, issued, revoked,
                   rq, resp>>
    /\ UNCHANGED <<users, cacheVars, dbVars>>

\* The INSERT executes: a constraint failure is thrown through the handler to
\* the error handler (500); otherwise { eventExists: true, updated: false }.
InsertLike(r) ==
    /\ pc[r] = "insertLike"
    /\ log' = [log EXCEPT ![r] = Append(log[r], "event_likes.insert")]
    /\ IF constraintFails(event_likes, loc[r].like)
       THEN /\ resp' = [resp EXCEPT ![r] = Status(500, "SQLITE_CONSTRAINT")]
            /\ pc' = [pc EXCEPT ![r] = "done"]
            /\ loc' = [loc EXCEPT ![r] = NoLoc]
            /\ UNCHANGED event_likes
       ELSE /\ event_likes' = event_likes \cup {loc[r].like}
            /\ loc' = [loc EXCEPT ![r] = [NoLoc EXCEPT !.result = Returned(TRUE, FALSE)]]
            /\ pc' = [pc EXCEPT ![r] = "getReactions"]
            /\ UNCHANGED resp
    /\ UNCHANGED <<now, nextUuid, JWT_SECRET, user_tokens, events, issued, revoked, rq>>
    /\ UNCHANGED <<users, cacheVars, dbVars>>

\* The UPDATE executes: { eventExists: true, updated: true }.
UpdateLike(r) ==
    /\ pc[r] = "updateLike"
    /\ log' = [log EXCEPT ![r] = Append(log[r], "event_likes.update")]
    /\ event_likes' = updateLike(event_likes, loc[r].like.reaction,
                                 loc[r].like.created_at, loc[r].existing.id)
    /\ loc' = [loc EXCEPT ![r] = [NoLoc EXCEPT !.result = Returned(TRUE, TRUE)]]
    /\ pc' = [pc EXCEPT ![r] = "getReactions"]
    /\ UNCHANGED <<now, nextUuid, JWT_SECRET, user_tokens, events, issued, revoked,
                   rq, resp>>
    /\ UNCHANGED <<users, cacheVars, dbVars>>

\* getEventReactions returns and the handler answers with the counts.
GetReactions(r) ==
    LET counts == getEventReactions(event_likes, rq[r].eventId) IN
    /\ pc[r] = "getReactions"
    /\ log' = [log EXCEPT ![r] = Append(log[r], "event_likes.count")]
    /\ resp' = [resp EXCEPT ![r] = [Ok EXCEPT !.likes = counts.likes,
                                              !.dislikes = counts.dislikes]]
    /\ pc' = [pc EXCEPT ![r] = "done"]
    /\ UNCHANGED <<now, nextUuid, JWT_SECRET, user_tokens, events, event_likes,
                   issued, revoked, rq, loc>>
    /\ UNCHANGED <<users, cacheVars, dbVars>>

(***************************************************************************)
(* The public reads: GET /events and GET /events/:id.                      *)
(***************************************************************************)
\* The window getEvents looks back from the current time.
EVENTS_WINDOW_MS == 3 * 24 * 60 * 60 * 1000

Date(ms) == [given |-> TRUE, ms |-> ms]

\* String(date): the text of a Date starts with the name of its weekday.
DateToString(date) == [leading |-> "letters", value |-> date.ms]

NaN == [nan |-> TRUE, ms |-> 0]

Number(n) == [nan |-> FALSE, ms |-> n]

\* parseInt(text): the number the text starts with, NaN when it starts with
\* none.
parseInt(text) == IF text.leading = "digits" THEN Number(text.value) ELSE NaN

\* a > b on numbers: false when either is NaN.
greaterThan(a, b) == ~a.nan /\ ~b.nan /\ a.ms > b.ms

\* The instant getEvents puts in "timestamp >= ?": the later of
\* new Date(parseInt(options.timestamp)) and three days before the current
\* time, or the latter when no timestamp is given.
since(options, t) ==
    LET second == Number(t - EVENTS_WINDOW_MS) IN
    IF options.timestamp.given
    THEN LET first == parseInt(DateToString(options.timestamp)) IN
         IF greaterThan(first, second) THEN first ELSE second
    ELSE second

\* a >= b on ISO texts of instants, as SQLite compares TEXT.
isoGE(a, b) == a.sec > b.sec \/ (a.sec = b.sec /\ a.msec >= b.msec)

\* SELECT * FROM events WHERE 1=1 [AND type = ?] AND timestamp >= ?
selectEvents(table, type, sinceIso) ==
    {e \in table : (type # "" => e.type = type) /\ isoGE(e.timestamp, sinceIso)}

\* ORDER BY timestamp DESC: the orders the rows can come in.
orderByTimestampDesc(rows) ==
    {seq \in [1..Cardinality(rows) -> rows] :
        /\ \A i, j \in 1..Cardinality(rows) : i # j => seq[i] # seq[j]
        /\ \A i, j \in 1..Cardinality(rows) :
              i < j => isoGE(seq[i].timestamp, seq[j].timestamp)}

getEventsReactions_LikesOnly(table, eventIds) ==
    [id \in {eventIds[i] : i \in 1..Len(eventIds)} |->
        [likes |-> Cardinality({row \in table : row.event_id = id /\ row.reaction = 1}),
         dislikes |-> 0]]

\* getEventsReactions: { likes: 0, dislikes: 0 } for every id asked for, then
\* the sums of the groups the query returned, one per event that has rows.
getEventsReactions(table, eventIds) ==
    LET ids == {eventIds[i] : i \in 1..Len(eventIds)}
        rows == {id \in ids : \E row \in table : row.event_id = id}
    IN [id \in ids |->
          IF id \in rows
          THEN [likes |-> Cardinality({row \in table :
                                          row.event_id = id /\ row.reaction = 1}),
                dislikes |-> Cardinality({row \in table :
                                             row.event_id = id /\ row.reaction = -1})]
          ELSE [likes |-> 0, dislikes |-> 0]]

\* The object the reads answer with for an event row and its counts.
eventJson(event, reaction) ==
    [id |-> event.id, stopId |-> event.stopId, type |-> event.type,
     timestamp |-> getTime(event.timestamp),
     likes |-> reaction.likes, dislikes |-> reaction.dislikes]

\* GET /events?type=..&timestamp=..: the query is built with the current time
\* and sent.
ListBegin(r, type, timestamp) ==
    /\ pc[r] \in {"idle", "done"}
    /\ rq' = [rq EXCEPT ![r] = [NoRq EXCEPT !.kind = "list", !.type = type,
                                             !.timestamp = timestamp]]
    /\ loc' = [loc EXCEPT ![r] =
                 [NoLoc EXCEPT !.since =
                    toISOString(since([type |-> type, timestamp |-> timestamp], now).ms)]]
    /\ pc' = [pc EXCEPT ![r] = "selEvents"]
    /\ resp' = [resp EXCEPT ![r] = NoResp]
    /\ log' = [log EXCEPT ![r] = <<>>]
    /\ UNCHANGED <<now, nextUuid, JWT_SECRET, user_tokens, events, event_likes,
                   issued, revoked>>
    /\ UNCHANGED <<users, cacheVars, dbVars>>

\* The query on events returns; with no rows getEventsReactions returns {}
\* without a query and the empty list is sent, otherwise its query is sent.
ListEvents(r) ==
    /\ pc[r] = "selEvents"
    /\ log' = [log EXCEPT ![r] = Append(log[r], "events.select")]
    /\ \E rows \in orderByTimestampDesc(selectEvents(events, rq[r].type, loc[r].since)) :
          IF rows = <<>>
          THEN /\ resp' = [resp EXCEPT ![r] = Ok]
               /\ pc' = [pc EXCEPT ![r] = "done"]
               /\ loc' = [loc EXCEPT ![r] = NoLoc]
          ELSE /\ loc' = [loc EXCEPT ![r].events = rows]
               /\ pc' = [pc EXCEPT ![r] = "selReactions"]
               /\ UNCHANGED resp
    /\ UNCHANGED <<now, nextUuid, JWT_SECRET, user_tokens, events, event_likes,
                   issued, revoked, rq>>
    /\ UNCHANGED <<users, cacheVars, dbVars>>

\* The grouped query on event_likes returns and the list is sent.
ListReactions(r) ==
    LET rows == loc[r].events
        reactionsMap == getEventsReactions(event_likes,
                                           [i \in 1..Len(rows) |-> rows[i].id])
    IN
    /\ pc[r] = "selReactions"
    /\ log' = [log EXCEPT ![r] = Append(log[r], "event_likes.counts")]
    /\ resp' = [resp EXCEPT ![r] =
                 [Ok EXCEPT !.events =
                    [i \in 1..Len(rows) |-> eventJson(rows[i], reactionsMap[rows[i].id])]]]
    /\ pc' = [pc EXCEPT ![r] = "done"]
    /\ loc' = [loc EXCEPT ![r] = NoLoc]
    /\ UNCHANGED <<now, nextUuid, JWT_SECRET, user_tokens, events, event_likes,
                   issued, revoked, rq>>
    /\ UNCHANGED <<users, cacheVars, dbVars>>

\* GET /events/:id: getEventById sends its SELECT on events.
EventBegin(r, eventId) ==
    /\ pc[r] \in {"idle", "done"}
    /\ rq' = [rq EXCEPT ![r] = [NoRq EXCEPT !.kind = "event", !.eventId = eventId]]
    /\ loc' = [loc EXCEPT ![r] = NoLoc]
    /\ pc' = [pc EXCEPT ![r] = "selById"]
    /\ resp' = [resp EXCEPT ![r] = NoResp]
    /\ log' = [log EXCEPT ![r] = <<>>]
    /\ UNCHANGED <<now, nextUuid, JWT_SECRET, user_tokens, events, event_likes,
                   issued, revoked>>
    /\ UNCHANGED <<users, cacheVars, dbVars>>

\* The SELECT returns: null and 404, or on to getEventReactions.
EventById(r) ==
    LET found == {e \in events : e.id = rq[r].eventId} IN
    /\ pc[r] = "selById"
    /\ log' = [log EXCEPT ![r] = Append(log[r], "events.select")]
    /\ IF found = {}
       THEN /\ resp' = [resp EXCEPT ![r] = Status(404, "Event not found")]
            /\ pc' = [pc EXCEPT ![r] = "done"]
            /\ UNCHANGED loc
       ELSE /\ loc' = [loc EXCEPT ![r].events = <<CHOOSE e \in found : TRUE>>]
            /\ pc' = [pc EXCEPT ![r] = "reactionsById"]
            /\ UNCHANGED resp
    /\ UNCHANGED <<now, nextUuid, JWT_SECRET, user_tokens, events, event_likes,
                   issued, revoked, rq>>
    /\ UNCHANGED <<users, cacheVars, dbVars>>

\* getEventReactions returns and the event is sent with its counts.
EventReactions(r) ==
    LET event == loc[r].events[1] IN
    /\ pc[r] = "reactionsById"
    /\ log' = [log EXCEPT ![r] = Append(log[r], "event_likes.count")]
    /\ resp' = [resp EXCEPT ![r] =
                 [Ok EXCEPT !.events =
                    <<eventJson(event, getEventReactions(event_likes, event.id))>>]]
    /\ pc' = [pc EXCEPT ![r] = "done"]
    /\ loc' = [loc EXCEPT ![r] = NoLoc]
    /\ UNCHANGED <<now, nextUuid, JWT_SECRET, user_tokens, events, event_likes,
                   issued, revoked, rq>>
    /\ UNCHANGED <<users, cacheVars, dbVars>>

(***************************************************************************)
(* The /v1/poznan proxy behind the response cache of createCache.          *)
(***************************************************************************)
CACHE_TTL_MS == 5 * 60 * 1000

\* The state of the model outside the clock and the proxy.
appVars == <<nextUuid, JWT_SECRET, users, user_tokens, events, event_likes,
             issued, revoked, pc, rq, loc, resp, log, dbVars>>

\* What a client sends to the proxy: the router is mounted at /v1/poznan and
\* its one route, GET "/", takes any query string.
Request(method, query) == [method |-> method, path |-> "/v1/poznan", query |-> query]

Requests == {Request(method, query) : method \in {"GET", "POST"},
                                      query \in {"", "?zone=A"}}

originalUrl_PathOnly(req) == <<req.path, "">>

\* req.originalUrl: the path followed by the query string.
originalUrl(req) == <<req.path, req.query>>

Keys == {originalUrl(req) : req \in Requests}

\* JSON bodies: the array the route sends, or the object the error handler sends.
NoBody == [json |-> "none", items |-> <<>>, error |-> ""]

ArrayBody(items) == [json |-> "array", items |-> items, error |-> ""]

ErrorBody(message) == [json |-> "object", items |-> <<>>, error |-> message]

\* cache.get(key) when cache.has(key) is false.
NoEntry == [has |-> FALSE, expires |-> 0, value |-> NoBody]

NoRes == [status |-> 0, body |-> NoBody, patched |-> FALSE]

NoRequest == Request("", "")

\* A feature of the upstream document; coordinates is empty when the geometry
\* or its coordinates are missing.
Feature(id, coordinates, hasProperties, stop_name) ==
    [id |-> id, type |-> "Feature", coordinates |-> coordinates,
     hasProperties |-> hasProperties, zone |-> "A", route_type |-> "3",
     headsigns |-> "1, 2", stop_name |-> stop_name]

\* What axios.get comes back with: a rejection, or a document with or without
\* a features array.
Upstream(rejected, hasFeatures, features) ==
    [rejected |-> rejected, hasFeatures |-> hasFeatures, features |-> features]

UpstreamResponses ==
    {Upstream(TRUE, FALSE, <<>>),
     Upstream(FALSE, FALSE, <<>>),
     Upstream(FALSE, TRUE, <<Feature(1, <<16, 52>>, TRUE, "Rondo")>>),
     Upstream(FALSE, TRUE, <<Feature(2, <<>>, TRUE, "Most")>>),
     Upstream(FALSE, TRUE, <<Feature(3, <<17, 52>>, FALSE, "")>>)}

\* item.geometry?.coordinates?.[i] ?? null, null being the empty sequence.
coordinate(item, i) ==
    IF Len(item.coordinates) >= i THEN <<item.coordinates[i]>> ELSE <<>>

\* The flattened item the route maps a feature to.
mapItem(item) ==
    [id |-> item.id, type |-> item.type,
     longitude |-> coordinate(item, 1), latitude |-> coordinate(item, 2),
     zone |-> item.zone, route_type |-> item.route_type,
     headsigns |-> item.headsigns, stop_name |-> item.stop_name]

\* errorHandler: the status of the error or 500, and { error: err.message }.
errorHandler(message) == [failed |-> TRUE, status |-> 500, body |-> ErrorBody(message)]

\* The route handler once axios.get has settled: the mapped array, or the
\* error handler's answer when axios.get rejected or item.properties of a
\* feature is undefined.
poznanHandler(response) ==
    LET data == IF response.hasFeatures THEN response.features ELSE <<>> IN
    IF response.rejected THEN errorHandler("Network Error")
    ELSE IF \E i \in 1..Len(data) : ~data[i].hasProperties
    THEN errorHandler("Cannot read properties of undefined")
    ELSE [failed |-> FALSE, status |-> 200,
          body |-> ArrayBody([i \in 1..Len(data) |-> mapItem(data[i])])]

isLive_Never(entry, t) == FALSE

isLive_Inclusive(entry, t) == entry.has /\ t <= entry.expires

\* cache.has(key) && Date.now() < expires
isLive(entry, t) == entry.has /\ t < entry.expires

cacheSet_ExpiresNow(map, key, t, ttlMs, body) ==
    [map EXCEPT ![key] = [has |-> TRUE, expires |-> t, value |-> body]]

\* cache.set(key, { expires: Date.now() + ttlMs, value: body })
cacheSet(map, key, t, ttlMs, body) ==
    [map EXCEPT ![key] = [has |-> TRUE, expires |-> t + ttlMs, value |-> body]]

resJson_StoresOnEverySend(patched, map, key, t, ttlMs, body) ==
    cacheSet(map, key, t, ttlMs, body)

resJson_FirstWriterWins(patched, map, key, t, ttlMs, body) ==
    IF patched /\ ~map[key].has THEN cacheSet(map, key, t, ttlMs, body) ELSE map

\* The cache after res.json(body): the json of a response createCache has
\* patched stores the body before it sends it; the json of any other response
\* only sends.
resJson(patched, map, key, t, ttlMs, body) ==
    IF patched THEN cacheSet(map, key, t, ttlMs, body) ELSE map

\* The middleware runs up to the handler's await.  Another method than GET goes
\* to next() and finds no route (404, not sent through res.json).  A live
\* entry is answered at once.  Otherwise an expired entry is deleted, res.json
\* is patched, next() runs the route handler, which suspends at axios.get.
createCache(r, req) ==
    LET key == originalUrl(req)
        entry == cache[key]
    IN
    /\ cpc[r] \in {"idle", "done"}
    /\ creq' = [creq EXCEPT ![r] = req]
    /\ IF req.method # "GET"
       THEN /\ cache' = cache
            /\ cpc' = [cpc EXCEPT ![r] = "done"]
            /\ cres' = [cres EXCEPT ![r] = [NoRes EXCEPT !.status = 404]]
            /\ clog' = [clog EXCEPT ![r] = <<"next">>]
       ELSE IF isLive(entry, now)
       THEN /\ cache' = resJson(FALSE, cache, key, now, CACHE_TTL_MS, entry.value)
            /\ cpc' = [cpc EXCEPT ![r] = "done"]
            /\ cres' = [cres EXCEPT ![r] = [NoRes EXCEPT !.status = 200,
                                                          !.body = entry.value]]
            /\ clog' = [clog EXCEPT ![r] = <<"res.json">>]
       ELSE /\ cache' = [cache EXCEPT ![key] = NoEntry]
            /\ cpc' = [cpc EXCEPT ![r] = "fetch"]
            /\ cres' = [cres EXCEPT ![r] = [NoRes EXCEPT !.patched = TRUE]]
            /\ clog' = [clog EXCEPT ![r] =
                          (IF entry.has THEN <<"cache.delete">> ELSE <<>>)
                             \o <<"next", "axios.get">>]
    /\ UNCHANGED <<now, appVars>>

\* axios.get settles and the handler runs to its end: it sends the mapped
\* array with res.json, or passes the error to the error handler, which sends
\* its object with res.status(status).json on the same response.
poznanGet(r, response) ==
    LET out == poznanHandler(response)
        key == originalUrl(creq[r])
    IN
    /\ cpc[r] = "fetch"
    /\ cache' = resJson(cres[r].patched, cache, key, now, CACHE_TTL_MS, out.body)
    /\ cres' = [cres EXCEPT ![r].status = out.status, ![r].body = out.body]
    /\ clog' = [clog EXCEPT ![r] =
                  clog[r] \o (IF out.failed THEN <<"errorHandler">> ELSE <<>>)
                          \o <<"res.json">>]
    /\ cpc' = [cpc EXCEPT ![r] = "done"]
    /\ UNCHANGED <<now, creq, appVars>>

(***************************************************************************)
(* The clock.                                                              *)
(***************************************************************************)
\* Half a second passes.
TickSmall ==
    /\ (now % BigStep) \div SmallStep < MaxSmallTicks
    /\ now' = now + SmallStep
    /\ UNCHANGED <<nextUuid, JWT_SECRET, user_tokens, events, event_likes,
                   issued, revoked, pc, rq, loc, resp, log>>
    /\ UNCHANGED <<users, cacheVars, dbVars>>

\* One token validity window minus half a second passes.
TickBig ==
    /\ now \div BigStep < MaxBigTicks
    /\ now' = now + BigStep
    /\ UNCHANGED <<nextUuid, JWT_SECRET, user_tokens, events, event_likes,
                   issued, revoked, pc, rq, loc, resp, log>>
    /\ UNCHANGED <<users, cacheVars, dbVars>>

MaxTtlTicks == 1
\* clock steps of one cache lifetime minus half a second

TtlStep == CACHE_TTL_MS - SmallStep

TickTtl_Sweep ==
    /\ now \div TtlStep < MaxTtlTicks
    /\ now' = now + TtlStep
    /\ cache' = [key \in Keys |->
                   IF cache[key].has /\ now' >= cache[key].expires THEN NoEntry
                   ELSE cache[key]]
    /\ UNCHANGED <<appVars, cpc, creq, cres, clog>>

\* One cache lifetime minus half a second passes.
TickTtl ==
    /\ now \div TtlStep < MaxTtlTicks
    /\ now' = now + TtlStep
    /\ UNCHANGED <<appVars, cacheVars>>

(***************************************************************************)
(* Accounts: POST /register and POST /login.                               *)
(***************************************************************************)
Usernames == {"alice", "bob"}

Emails == {"alice@mail", "bob@mail"}

Passwords == {"pw1", "pw2"}

userRow(id, username, email, hash) ==
    [id |-> id, username |-> username, email |-> email, password_hash |-> hash]

\* The accounts of a database in which both users have registered.
Accounts ==
    {userRow("u1", "alice", "alice@mail", bcrypt_hash("pw1", "s1")),
     userRow("u2", "bob", "bob@mail", bcrypt_hash("pw2", "s2"))}

findUserByUsernameOrEmail_UsernameOnly(table, usernameOrEmail) ==
    {u \in table : u.username = usernameOrEmail}

\* SELECT * FROM users WHERE username = ? OR email = ?
findUserByUsernameOrEmail(table, usernameOrEmail) ==
    {u \in table : u.username = usernameOrEmail \/ u.email = usernameOrEmail}

\* The constraints of users an INSERT can violate: PRIMARY KEY (id),
\* UNIQUE (username) and UNIQUE (email).
userConstraintFails(table, row) ==
    \E old \in table :
        \/ old.id = row.id
        \/ old.username = row.username
        \/ old.email = row.email

verifyPassword_AnyPassword(plain, hash) == TRUE

\* verifyPassword: bcrypt.compare(plain, hash)
verifyPassword(plain, hash) == bcrypt_compare(plain, hash)

\* POST /register with a body registerSchema accepts: the handler suspends at
\* its first findUserByUsernameOrEmail, the one by username.
RegisterBegin(r, username, email, password) ==
    /\ pc[r] \in {"idle", "done"}
    /\ rq' = [rq EXCEPT ![r] = [NoRq EXCEPT !.kind = "register", !.username = username,
                                             !.email = email, !.password = password]]
    /\ pc' = [pc EXCEPT ![r] = "findByUsername"]
    /\ loc' = [loc EXCEPT ![r] = NoLoc]
    /\ resp' = [resp EXCEPT ![r] = NoResp]
    /\ log' = [log EXCEPT ![r] = <<>>]
    /\ UNCHANGED <<now, nextUuid, JWT_SECRET, users, user_tokens, events, event_likes,
                   issued, revoked>>
    /\ UNCHANGED <<cacheVars, dbVars>>

\* The SELECT by username returns: a row makes `existing` truthy and the
\* answer is 409; otherwise the SELECT by email is sent.
RegisterByUsername(r) ==
    LET existing == findUserByUsernameOrEmail(users, rq[r].username) IN
    /\ pc[r] = "findByUsername"
    /\ log' = [log EXCEPT ![r] = Append(log[r], "users.select")]
    /\ IF existing # {}
       THEN /\ resp' = [resp EXCEPT ![r] = Status(409, "Username or email already in use")]
            /\ pc' = [pc EXCEPT ![r] = "done"]
       ELSE /\ pc' = [pc EXCEPT ![r] = "findByEmail"]
            /\ UNCHANGED resp
    /\ UNCHANGED <<now, nextUuid, JWT_SECRET, users, user_tokens, events, event_likes,
                   issued, revoked, rq, loc>>
    /\ UNCHANGED <<cacheVars, dbVars>>

\* The ids no user row and no pending INSERT holds: what uuidv4() can return.
FreshUserIds ==
    (Users \ {u.id : u \in users}) \ {loc[q].user.id : q \in {p \in Req : pc[p] = "insertUser"}}

\* The SELECT by email returns: 409, or createUser draws the id and hashes
\* the password (bcrypt.hash reads and writes nothing shared, so its await is
\* folded into this step) and the INSERT is sent.
RegisterByEmail(r) ==
    LET existing == findUserByUsernameOrEmail(users, rq[r].email) IN
    /\ pc[r] = "findByEmail"
    /\ log' = [log EXCEPT ![r] = Append(log[r], "users.select")]
    /\ IF existing # {}
       THEN /\ resp' = [resp EXCEPT ![r] = Status(409, "Username or email already in use")]
            /\ pc' = [pc EXCEPT ![r] = "done"]
            /\ UNCHANGED loc
       ELSE /\ \E id \in FreshUserIds, salt \in Salts :
                  loc' = [loc EXCEPT ![r].user =
                            userRow(id, rq[r].username, rq[r].email,
                                    bcrypt_hash(rq[r].password, salt))]
            /\ pc' = [pc EXCEPT ![r] = "insertUser"]
            /\ UNCHANGED resp
    /\ UNCHANGED <<now, nextUuid, JWT_SECRET, users, user_tokens, events, event_likes,
                   issued, revoked, rq>>
    /\ UNCHANGED <<cacheVars, dbVars>>

\* The INSERT into users executes: a constraint failure is thrown to the
\* error handler (500); otherwise the row is there and the answer is 201.
RegisterInsert(r) ==
    /\ pc[r] = "insertUser"
    /\ log' = [log EXCEPT ![r] = Append(log[r], "users.insert")]
    /\ IF userConstraintFails(users, loc[r].user)
       THEN /\ resp' = [resp EXCEPT ![r] = Status(500, "SQLITE_CONSTRAINT")]
            /\ UNCHANGED users
       ELSE /\ users' = users \cup {loc[r].user}
            /\ resp' = [resp EXCEPT ![r] = Status(201, "")]
    /\ pc' = [pc EXCEPT ![r] = "done"]
    /\ loc' = [loc EXCEPT ![r] = NoLoc]
    /\ UNCHANGED <<now, nextUuid, JWT_SECRET, user_tokens, events, event_likes,
                   issued, revoked, rq>>
    /\ UNCHANGED <<cacheVars, dbVars>>

\* POST /login with a body loginSchema accepts: the handler suspends at
\* findUserByUsernameOrEmail.
LoginRequest(r, usernameOrEmail, password) ==
    /\ pc[r] \in {"idle", "done"}
    /\ rq' = [rq EXCEPT ![r] = [NoRq EXCEPT !.kind = "login",
                                             !.usernameOrEmail = usernameOrEmail,
                                             !.password = password]]
    /\ pc' = [pc EXCEPT ![r] = "loginFind"]
    /\ loc' = [loc EXCEPT ![r] = NoLoc]
    /\ resp' = [resp EXCEPT ![r] = NoResp]
    /\ log' = [log EXCEPT ![r] = <<>>]
    /\ UNCHANGED <<now, nextUuid, JWT_SECRET, users, user_tokens, events, event_likes,
                   issued, revoked>>
    /\ UNCHANGED <<cacheVars, dbVars>>

\* The SELECT returns its first row or none: 401, or on to verifyPassword.
LoginFind(r) ==
    LET found == findUserByUsernameOrEmail(users, rq[r].usernameOrEmail) IN
    /\ pc[r] = "loginFind"
    /\ log' = [log EXCEPT ![r] = Append(log[r], "users.select")]
    /\ IF found = {}
       THEN /\ resp' = [resp EXCEPT ![r] = Status(401, "Invalid credentials")]
            /\ pc' = [pc EXCEPT ![r] = "done"]
            /\ UNCHANGED loc
       ELSE /\ \E user \in found : loc' = [loc EXCEPT ![r].user = user]
            /\ pc' = [pc EXCEPT ![r] = "verifyPassword"]
            /\ UNCHANGED resp
    /\ UNCHANGED <<now, nextUuid, JWT_SECRET, users, user_tokens, events, event_likes,
                   issued, revoked, rq>>
    /\ UNCHANGED <<cacheVars, dbVars>>

\* bcrypt.compare resolves: 401 on a mismatch; otherwise generateAndStoreToken
\* signs the token for user.id and sends its INSERT, or throws without a secret.
LoginVerify(r) ==
    /\ pc[r] = "verifyPassword"
    /\ IF ~verifyPassword(rq[r].password, loc[r].user.password_hash)
       THEN /\ resp' = [resp EXCEPT ![r] = Status(401, "Invalid credentials")]
            /\ pc' = [pc EXCEPT ![r] = "done"]
            /\ loc' = [loc EXCEPT ![r] = NoLoc]
            /\ log' = [log EXCEPT ![r] = Append(log[r], "bcrypt.compare")]
            /\ UNCHANGED <<nextUuid, rq>>
       ELSE /\ nextUuid <= MaxSessions
            /\ nextUuid' = nextUuid + 1
            /\ rq' = [rq EXCEPT ![r].userId = loc[r].user.id]
            /\ IF JWT_SECRET = ""
               THEN /\ pc' = [pc EXCEPT ![r] = "done"]
                    /\ resp' = [resp EXCEPT ![r] =
                                 Status(500, "JWT_SECRET is not set in environment.")]
                    /\ loc' = [loc EXCEPT ![r] = NoLoc]
                    /\ log' = [log EXCEPT ![r] = Append(log[r], "bcrypt.compare")]
               ELSE /\ pc' = [pc EXCEPT ![r] = "tokenInsert"]
                    /\ loc' = [loc EXCEPT ![r].row =
                                 tokenRow(loc[r].user.id, now, nextUuid, JWT_SECRET)]
                    /\ log' = [log EXCEPT ![r] = log[r] \o <<"bcrypt.compare", "jwt.sign">>]
                    /\ UNCHANGED resp
    /\ UNCHANGED <<now, JWT_SECRET, users, user_tokens, events, event_likes,
                   issued, revoked>>
    /\ UNCHANGED <<cacheVars, dbVars>>

(***************************************************************************)
(* db.js: the connection of the process.  init(dbFile) returns the         *)
(* connection, the promise of the attempt in flight, or starts an attempt; *)
(* an attempt awaits open, fs.readFile and connection.exec in turn.        *)
(***************************************************************************)
MaxCallers == 3
\* callers of db.init and db.getDb

MaxAttempts == 2
\* runs of the async function inside init in one behaviour

Callers == 1..MaxCallers

DB_FILE == "database.sqlite"

\* The dbFile argument of init: left out, or the path of another file.
Files == {"", "other.sqlite"}

NoConnection == [open |-> FALSE, filename |-> "", attempt |-> 0]

\* The connection open() resolved to in attempt n.
Connection(file, n) == [open |-> TRUE, filename |-> file, attempt |-> n]

NoPromise == [made |-> FALSE, attempt |-> 0]

\* The promise the async function of attempt n returned.
Promise(n) == [made |-> TRUE, attempt |-> n]

NoAttempt == [id |-> 0, at |-> "none", filename |-> "", connection |-> NoConnection]

NoCall == [state |-> "idle", dbFile |-> "", promise |-> NoPromise, value |-> NoConnection,
           error |-> ""]

NoGot == [called |-> FALSE, threw |-> FALSE, value |-> NoConnection]

Opened(file) == [op |-> "open", filename |-> file]

Applied(file) == [op |-> "exec", filename |-> file]

\* console.error("[DB] Failed to open or initialize database:", err)
Failed(file) == [op |-> "error", filename |-> file]

\* filename: dbFile || DB_FILE
filename(dbFile) == IF dbFile = "" THEN DB_FILE ELSE dbFile

initBranch_NoPromiseCheck(instance, promise) ==
    IF instance.open THEN "instance" ELSE "attempt"

\* The two tests at the head of init.
initBranch(instance, promise) ==
    IF instance.open THEN "instance"
    ELSE IF promise.made THEN "promise"
    ELSE "attempt"

onFailure_KeepsPromise(promise) == promise

\* catch (err): dbPromise = null
onFailure(promise) == NoPromise

\* getDb(): throws while dbInstance is null, returns it otherwise.
getDb(instance) ==
    IF ~instance.open THEN [called |-> TRUE, threw |-> TRUE, value |-> NoConnection]
    ELSE [called |-> TRUE, threw |-> FALSE, value |-> instance]

Resolved(dbFile, promise, value) ==
    [state |-> "resolved", dbFile |-> dbFile, promise |-> promise, value |-> value,
     error |-> ""]

Rejected(dbFile, promise, error) ==
    [state |-> "rejected", dbFile |-> dbFile, promise |-> promise, value |-> NoConnection,
     error |-> error]

Waiting(dbFile, promise) ==
    [state |-> "waiting", dbFile |-> dbFile, promise |-> promise, value |-> NoConnection,
     error |-> ""]

\* What a caller holds once it is given a promise of init: it waits on one
\* in flight and has the outcome of one that has settled.
Given(dbFile, promise) ==
    IF attempt.id = promise.attempt /\ attempt.at = "done"
    THEN Resolved(dbFile, promise, attempt.connection)
    ELSE IF attempt.id = promise.attempt /\ attempt.at \in {"open", "readFile", "exec"}
    THEN Waiting(dbFile, promise)
    ELSE Rejected(dbFile, promise, "init failed")

\* A caller calls init(dbFile).  With a connection it resolves to it; with a
\* promise it is given that promise; otherwise the async function starts,
\* calls open() and suspends, and its promise is stored and returned.
InitCall(c, dbFile) ==
    LET branch == initBranch(dbInstance, dbPromise)
        n == attempt.id + 1
    IN
    /\ call[c].state # "waiting"
    /\ IF branch = "instance"
       THEN /\ call' = [call EXCEPT ![c] = Resolved(dbFile, NoPromise, dbInstance)]
            /\ UNCHANGED <<dbPromise, attempt, dblog>>
       ELSE IF branch = "promise"
       THEN /\ call' = [call EXCEPT ![c] = Given(dbFile, dbPromise)]
            /\ UNCHANGED <<dbPromise, attempt, dblog>>
       ELSE /\ attempt.id < MaxAttempts
            /\ attempt' = [id |-> n, at |-> "open", filename |-> filename(dbFile),
                           connection |-> NoConnection]
            /\ dbPromise' = Promise(n)
            /\ dblog' = Append(dblog, Opened(filename(dbFile)))
            /\ call' = [call EXCEPT ![c] = Waiting(dbFile, Promise(n))]
    /\ UNCHANGED <<dbInstance, got>>
    /\ UNCHANGED <<now, nextUuid, JWT_SECRET, users, user_tokens, events, event_likes,
                   issued, revoked, pc, rq, loc, resp, log, cacheVars>>

\* The attempt throws at one of its awaits: the catch clears dbPromise and
\* rethrows, which rejects the promise every waiting caller was given.
attemptFails ==
    /\ attempt' = [attempt EXCEPT !.at = "failed"]
    /\ dbPromise' = onFailure(dbPromise)
    /\ call' = [c \in Callers |->
                  IF call[c].state = "waiting" /\ call[c].promise.attempt = attempt.id
                  THEN Rejected(call[c].dbFile, call[c].promise, "init failed")
                  ELSE call[c]]
    /\ dblog' = Append(dblog, Failed(attempt.filename))
    /\ UNCHANGED dbInstance

\* open() settles.
OpenSettles(ok) ==
    /\ attempt.at = "open"
    /\ IF ok
       THEN /\ attempt' = [attempt EXCEPT !.at = "readFile",
                                          !.connection = Connection(attempt.filename, attempt.id)]
            /\ UNCHANGED <<dbInstance, dbPromise, call, dblog>>
       ELSE attemptFails
    /\ UNCHANGED got
    /\ UNCHANGED <<now, nextUuid, JWT_SECRET, users, user_tokens, events, event_likes,
                   issued, revoked, pc, rq, loc, resp, log, cacheVars>>

\* fs.readFile(SCHEMA_FILE) settles.
ReadFileSettles(ok) ==
    /\ attempt.at = "readFile"
    /\ IF ok
       THEN /\ attempt' = [attempt EXCEPT !.at = "exec"]
            /\ UNCHANGED <<dbInstance, dbPromise, call, dblog>>
       ELSE attemptFails
    /\ UNCHANGED got
    /\ UNCHANGED <<now, nextUuid, JWT_SECRET, users, user_tokens, events, event_likes,
                   issued, revoked, pc, rq, loc, resp, log, cacheVars>>

\* connection.exec(schemaSql) settles: on success dbInstance is set and the
\* promise resolves to it for every caller that waits on it.
ExecSettles(ok) ==
    /\ attempt.at = "exec"
    /\ IF ok
       THEN /\ attempt' = [attempt EXCEPT !.at = "done"]
            /\ dbInstance' = attempt.connection
            /\ dblog' = Append(dblog, Applied(attempt.filename))
            /\ call' = [c \in Callers |->
                          IF call[c].state = "waiting"
                             /\ call[c].promise.attempt = attempt.id
                          THEN Resolved(call[c].dbFile, call[c].promise, attempt.connection)
                          ELSE call[c]]
            /\ UNCHANGED dbPromise
       ELSE attemptFails
    /\ UNCHANGED got
    /\ UNCHANGED <<now, nextUuid, JWT_SECRET, users, user_tokens, events, event_likes,
                   issued, revoked, pc, rq, loc, resp, log, cacheVars>>

\* A caller calls getDb().
GetDb(c) ==
    /\ got' = [got EXCEPT ![c] = getDb(dbInstance)]
    /\ got'[c] # got[c]
    /\ UNCHANGED <<dbInstance, dbPromise, attempt, call, dblog>>
    /\ UNCHANGED <<now, nextUuid, JWT_SECRET, users, user_tokens, events, event_likes,
                   issued, revoked, pc, rq, loc, resp, log, cacheVars>>

\* The process has just loaded db.js.
DbFresh ==
    /\ dbInstance = NoConnection
    /\ dbPromise = NoPromise
    /\ attempt = NoAttempt
    /\ call = [c \in Callers |-> NoCall]
    /\ got = [c \in Callers |-> NoGot]
    /\ dblog = <<>>

\* startServer has awaited db.init(): the routes are served on the connection.
DbReady ==
    /\ dbInstance = Connection(DB_FILE, 1)
    /\ dbPromise = Promise(1)
    /\ attempt = [id |-> 1, at |-> "done", filename |-> DB_FILE,
                  connection |-> Connection(DB_FILE, 1)]
    /\ call = [c \in Callers |->
                 IF c = 1 THEN Resolved("", Promise(1), Connection(DB_FILE, 1)) ELSE NoCall]
    /\ got = [c \in Callers |-> NoGot]
    /\ dblog = <<Opened(DB_FILE), Applied(DB_FILE)>>

(***************************************************************************)
(* Specifications.                                                         *)
(***************************************************************************)
\* The server has started on a database without sessions or reactions; the
\* signing secret is set or not.
InitServer ==
    /\ now = 0
    /\ nextUuid = 1
    /\ JWT_SECRET \in {"", "secret"}
    /\ user_tokens = {}
    /\ event_likes = {}
    /\ issued = {}
    /\ revoked = {}
    /\ pc = [r \in Req |-> "idle"]
    /\ rq = [r \in Req |-> NoRq]
    /\ loc = [r \in Req |-> NoLoc]
    /\ resp = [r \in Req |-> NoResp]
    /\ log = [r \in Req |-> <<>>]
    /\ cache = [key \in Keys |-> NoEntry]
    /\ cpc = [r \in Req |-> "idle"]
    /\ creq = [r \in Req |-> NoRequest]
    /\ cres = [r \in Req |-> NoRes]
    /\ clog = [r \in Req |-> <<>>]

\* The two users have registered.
Init == InitServer /\ users = Accounts /\ events = {} /\ DbReady

\* A fresh database: schema.sql has just created the empty tables, and the
\* signing secret is set.
InitEmpty == InitServer /\ JWT_SECRET # "" /\ users = {} /\ events = {} /\ DbReady

\* The sessions of one user: slot 1 logs in and logs out, slot 2 reads the
\* profile and logs out, each with every header, while the clock steps.
AuthNext ==
    \/ TickSmall
    \/ TickBig
    \/ \E header \in Headers :
          AuthBegin(1, "logout", header, NoRq.eventId, NoRq.keys)
    \/ \E kind \in Protected, header \in Headers :
          AuthBegin(2, kind, header, NoRq.eventId, NoRq.keys)
    \/ \E r \in Req : AuthLookup(r)
    \/ \E r \in Req : Logout(r)
    \/ Me(2)
    \/ LoginBegin(1, "u1")
    \/ TokenInsert(1)

SpecAuth == Init /\ [][AuthNext]_vars

\* The reaction routes run behind authenticateJWT, which lets nothing through
\* without a signing secret; the week-long clock step matters to token expiry only.
InitReact == Init /\ JWT_SECRET # ""

\* The first user creates the event and reacts to it on slot 1; either user
\* reacts on slot 2, to that event or to one that does not exist.
ReactNext ==
    \/ TickSmall
    \/ createEvent(EventData("stop", "info"), "u1")
    \/ \E kind \in {"like", "dislike"}, eventId \in {e.id : e \in events} :
          LikeBegin(1, kind, eventId, "u1")
    \/ \E kind \in {"like", "dislike"}, userId \in Users :
          \E eventId \in {e.id : e \in events} \cup {UnknownEvent} :
             LikeBegin(2, kind, eventId, userId)
    \/ \E r \in Req : SelEvent(r)
    \/ \E r \in Req : SelExisting(r)
    \/ \E r \in Req : InsertLike(r)
    \/ \E r \in Req : UpdateLike(r)
    \/ \E r \in Req : GetReactions(r)

SpecReact == InitReact /\ [][ReactNext]_vars

\* Slot 1 sends every request and sees every upstream response; slot 2 sends
\* the two GET requests and sees the upstream fail or answer one stop.
CacheNext ==
    \/ TickSmall
    \/ TickTtl
    \/ \E req \in Requests : createCache(1, req)
    \/ \E response \in UpstreamResponses : poznanGet(1, response)
    \/ \E query \in {"", "?zone=A"} : createCache(2, Request("GET", query))
    \/ \E response \in {Upstream(TRUE, FALSE, <<>>),
                         Upstream(FALSE, TRUE, <<Feature(1, <<16, 52>>, TRUE, "Rondo")>>)} :
          poznanGet(2, response)

\* The cache reads nothing of the database; the signing secret is set.
SpecCache == InitReact /\ [][CacheNext]_vars

\* The reads beside the writes they show: events of two types, reactions of
\* one user, lists asked for with and without type and timestamp.
ListNext ==
    \/ TickSmall
    \/ TickBig
    \/ \E type \in {"info", "delay"} : createEvent(EventData("stop", type), "u1")
    \/ \E kind \in {"like", "dislike"} :
          \E eventId \in {e.id : e \in events} : LikeBegin(1, kind, eventId, "u1")
    \/ SelEvent(1)
    \/ SelExisting(1)
    \/ InsertLike(1)
    \/ UpdateLike(1)
    \/ GetReactions(1)
    \/ \E type \in {"", "info"}, timestamp \in {NoDate, Date(0), Date(BigStep)} :
          ListBegin(2, type, timestamp)
    \/ ListEvents(2)
    \/ ListReactions(2)
    \/ \E eventId \in {e.id : e \in events} \cup {UnknownEvent} : EventBegin(2, eventId)
    \/ EventById(2)
    \/ EventReactions(2)

SpecList == InitReact /\ [][ListNext]_vars

\* Two events that were created before the reactions begin; their ids are
\* uuids no later call draws.
SeedEvents ==
    {eventRow(EventData("stop", "info"), "u1", 0, MaxUuid + 1),
     eventRow(EventData("stop", "info"), "u2", 0, MaxUuid + 2)}

InitFrame ==
    InitServer /\ JWT_SECRET # "" /\ users = Accounts /\ events = SeedEvents /\ DbReady

\* The two users react to the two events, the first user on slot 1 and the
\* second on slot 2.
FrameNext ==
    \/ \E kind \in {"like", "dislike"}, eventId \in {e.id : e \in events} :
          LikeBegin(1, kind, eventId, "u1")
    \/ \E kind \in {"like", "dislike"}, eventId \in {e.id : e \in events} :
          LikeBegin(2, kind, eventId, "u2")
    \/ \E r \in Req : SelEvent(r)
    \/ \E r \in Req : SelExisting(r)
    \/ \E r \in Req : InsertLike(r)
    \/ \E r \in Req : UpdateLike(r)
    \/ \E r \in Req : GetReactions(r)

SpecFrame == InitFrame /\ [][FrameNext]_vars

\* Every route behind authenticateJWT with every header: the sessions are
\* opened and closed on slot 1, the events and the reactions to them are
\* written on slot 2.
ProtectedNext ==
    \/ \E userId \in Users : LoginBegin(1, userId)
    \/ TokenInsert(1)
    \/ createEvent(EventData("stop", "info"), "u1")
    \/ \E kind \in Protected, header \in Headers :
          AuthBegin(1, kind, header, NoRq.eventId, NoRq.keys)
    \/ \E kind \in {"like", "dislike"}, header \in Headers :
          \E eventId \in {e.id : e \in events} :
             AuthBegin(2, kind, header, eventId, NoRq.keys)
    \/ \E header \in Headers, keys \in Bodies :
          AuthBegin(2, "create", header, NoRq.eventId, keys)
    \/ \E r \in Req : AuthLookup(r)
    \/ Logout(1)
    \/ Me(1)
    \/ EventInsert(2)
    \/ SelEvent(2)
    \/ SelExisting(2)
    \/ InsertLike(2)
    \/ UpdateLike(2)
    \/ GetReactions(2)

SpecProtected == InitReact /\ [][ProtectedNext]_vars

\* Registrations and logins on a fresh database: slot 1 registers, slot 2
\* registers or logs in.  Every account is registered with the first
\* password, and the logins try both.
UsersNext ==
    \/ \E r \in {1, 2}, username \in Usernames, email \in Emails :
          RegisterBegin(r, username, email, "pw1")
    \/ \E r \in {1, 2} : RegisterByUsername(r)
    \/ \E r \in {1, 2} : RegisterByEmail(r)
    \/ \E r \in {1, 2} : RegisterInsert(r)
    \/ \E usernameOrEmail \in Usernames \cup Emails, password \in Passwords :
          LoginRequest(2, usernameOrEmail, password)
    \/ LoginFind(2)
    \/ LoginVerify(2)
    \/ TokenInsert(2)

SpecUsers == InitEmpty /\ [][UsersNext]_vars

\* The process from the moment db.js is loaded: calls of init with and
\* without a file by every caller, the awaits of an attempt settling either
\* way, and getDb, which reads dbInstance alone, called by the third caller.
InitDb == InitServer /\ JWT_SECRET # "" /\ users = {} /\ events = {} /\ DbFresh

DbNext ==
    \/ \E c \in Callers, dbFile \in Files : InitCall(c, dbFile)
    \/ \E ok \in BOOLEAN : OpenSettles(ok)
    \/ \E ok \in BOOLEAN : ReadFileSettles(ok)
    \/ \E ok \in BOOLEAN : ExecSettles(ok)
    \/ GetDb(3)

SpecDb == InitDb /\ [][DbNext]_vars

Next == AuthNext \/ ReactNext \/ CacheNext \/ ListNext \/ ProtectedNext \/ UsersNext
           \/ FrameNext \/ DbNext

Spec == Init /\ [][Next]_vars

(***************************************************************************)
(* Properties of the session layer, checked under SpecAuth.                *)
(***************************************************************************)
Called(calls, name) == \E i \in 1..Len(calls) : calls[i] = name

Presented(r) == rq[r].header.second

IsProtected(r) == rq[r].kind \in Protected

\* The step in which request r's SELECT on user_tokens executes.
LookupStep(r) == pc[r] = "tokenLookup" /\ pc'[r] # "tokenLookup"

\* The step in which request r's revokeToken executes and returns.
RevokeStep(r) == pc[r] = "revoke" /\ pc'[r] # "revoke"

HasRow(table, token) == \E row \in table : row.token = token

\* C1: once revokeToken(t) has completed, no ledger row for t exists again, and
\* every authenticateJWT call whose ledger lookup executes afterwards answers
\* 401 "Token not recognized or revoked" without calling next().
C1_RevocationImmediate ==
    /\ [](\A t \in revoked : ~HasRow(user_tokens, t))
    /\ [][\A r \in Req :
            (LookupStep(r) /\ loc[r].token \in revoked)
               => /\ pc'[r] = "done"
                  /\ resp'[r] = NotRecognized
                  /\ ~Called(log'[r], "next")]_vars

\* A request carrying a logged-out token was refused as not recognised.
C1_Witness ==
    \E r \in Req :
        /\ pc[r] = "done"
        /\ rq[r].kind = "me"
        /\ Presented(r) \in revoked
        /\ resp[r] = NotRecognized

\* C2: next() is called only in the step that executes the ledger lookup, and
\* only when user_tokens then holds a row whose id is the token's jti and whose
\* token column is the presented string.
C2_AcceptedOnlyWithLedgerRow ==
    [][\A r \in Req :
         (~Called(log[r], "next") /\ Called(log'[r], "next"))
            => /\ LookupStep(r)
               /\ \E row \in user_tokens :
                     /\ row.id = Presented(r).payload.jti
                     /\ row.token = Presented(r)]_vars

\* A request was let through to its handler and answered.
C2_Witness ==
    \E r \in Req :
        /\ pc[r] = "done"
        /\ rq[r].kind = "me"
        /\ Called(log[r], "next")
        /\ resp[r] = Ok

\* C3: a request that passes jwt.verify carries a token whose ledger row, when
\* there is one, has expires_at later than the current time; and ledger rows
\* leave the table only through revokeToken, never because they expired.
C3_ExpiredRejected ==
    [][/\ \A r \in Req :
            (pc[r] \in {"idle", "done"} /\ pc'[r] = "tokenLookup")
               => \A row \in user_tokens :
                     row.token = loc'[r].token => now < getTime(row.expires_at)
       /\ \A row \in user_tokens :
            row \notin user_tokens' => \E r \in Req : RevokeStep(r)]_vars

\* An issued token whose row is still in the ledger was refused once its
\* expires_at had been reached.
C3_Witness ==
    \E r \in Req :
        /\ pc[r] = "done"
        /\ Presented(r) \in issued
        /\ startsWithBearer(rq[r].header)
        /\ resp[r] = InvalidSignatureOrExpired
        /\ \E row \in user_tokens :
              row.token = Presented(r) /\ getTime(row.expires_at) <= now

\* Whether the string is a token this server signed.
SignedHere(token) ==
    token.text = "jwt" /\ JWT_SECRET # "" /\ token.mac = HMAC(JWT_SECRET, token.payload)

\* C4: for every protected request, a query of user_tokens is preceded by
\* jwt.verify; a request answered 401 "Invalid or expired token" made no query;
\* and a bearer credential with a bad signature is answered exactly that way.
C4_VerifyBeforeLedger ==
    \A r \in Req :
        IsProtected(r) =>
            /\ \A i \in 1..Len(log[r]) :
                  log[r][i] = "user_tokens.select"
                     => \E j \in 1..(i - 1) : log[r][j] = "jwt.verify"
            /\ resp[r] = InvalidSignatureOrExpired
                  => ~Called(log[r], "user_tokens.select")
            /\ (startsWithBearer(rq[r].header) /\ ~SignedHere(Presented(r)))
                  => /\ pc[r] = "done"
                     /\ resp[r] = InvalidSignatureOrExpired
                     /\ log[r] = <<"jwt.verify">>

\* A forged copy of a token whose row is in the ledger was refused without a
\* ledger query.
C4_Witness ==
    \E r \in Req : \E t \in issued :
        /\ pc[r] = "done"
        /\ HasRow(user_tokens, t)
        /\ rq[r].header = Scheme("Bearer", Resigned(t))
        /\ resp[r] = InvalidSignatureOrExpired
        /\ log[r] = <<"jwt.verify">>

\* C5: a protected request whose Authorization header is absent or does not
\* start with "Bearer " is answered 401 "Missing or invalid Authorization
\* header" with no call made: no jwt.verify, no ledger read, no next().
C5_MissingCredential ==
    \A r \in Req :
        (IsProtected(r) /\ ~startsWithBearer(rq[r].header))
           => /\ pc[r] = "done"
              /\ resp[r] = MissingCredential
              /\ log[r] = <<>>

\* A live, unexpired token sent under another scheme was refused as a missing
\* credential, and so was a request with no header.
C5_Witness ==
    /\ \E r \in Req : \E row \in user_tokens :
          /\ rq[r].header = Scheme("Basic", row.token)
          /\ now < getTime(row.expires_at)
          /\ resp[r] = MissingCredential
    /\ \E r \in Req :
          IsProtected(r) /\ rq[r].header = NoHeader /\ resp[r] = MissingCredential

\* C6: every generateAndStoreToken call that reaches its INSERT adds its own
\* row, one row, and keeps every existing row; a row leaves the ledger only in
\* a revokeToken step for that row's own token; and only a token that was
\* revoked is ever answered "not recognized".
C6_SessionsIndependent ==
    /\ [](\A r \in Req : resp[r] = NotRecognized => Presented(r) \in revoked)
    /\ [][/\ \A row \in user_tokens :
               row \notin user_tokens'
                  => \E r \in Req : RevokeStep(r) /\ loc[r].token = row.token
          /\ \A r \in Req :
               (pc[r] = "tokenInsert" /\ pc'[r] # "tokenInsert")
                  => /\ loc[r].row \notin user_tokens
                     /\ user_tokens' = user_tokens \cup {loc[r].row}
          /\ user_tokens' \ user_tokens # {}
               => /\ user_tokens \subseteq user_tokens'
                  /\ Cardinality(user_tokens') = Cardinality(user_tokens) + 1]_vars

\* One user holds two tokens; one has been revoked and a request carrying the
\* other has just been let through.
C6_Witness ==
    \E r \in Req : \E gone \in revoked :
        /\ pc[r] = "findUser"
        /\ loc[r].token # gone
        /\ loc[r].token.payload.sub = gone.payload.sub
        /\ HasRow(user_tokens, loc[r].token)

\* C7: a revokeToken call on a token with no ledger row answers success and
\* leaves the ledger as it was; and revoking twice gives the ledger that
\* revoking once gives.
C7_RevokeIdempotent ==
    /\ [](\A t \in issued :
            revokeToken(revokeToken(user_tokens, t), t) = revokeToken(user_tokens, t))
    /\ [][\A r \in Req :
            (RevokeStep(r) /\ ~HasRow(user_tokens, loc[r].token))
               => /\ user_tokens' = user_tokens
                  /\ resp'[r] = Ok]_vars

\* Two logouts with the same token both completed: the later DELETE found no row.
C7_Witness ==
    \E r1, r2 \in Req :
        /\ r1 # r2
        /\ rq[r1].kind = "logout" /\ rq[r2].kind = "logout"
        /\ Presented(r1) = Presented(r2)
        /\ resp[r1] = Ok /\ resp[r2] = Ok

\* What generateAndStoreToken promises of a row.
C8_RowWellFormed(row) ==
    /\ row.issued_at.msec = 0
    /\ getTime(row.expires_at) = getTime(row.issued_at) + 604800 * 1000
    /\ row.token.payload.exp * 1000 = getTime(row.expires_at)
    /\ row.token.payload.iat * 1000 = getTime(row.issued_at)
    /\ row.token.payload.jti = row.id
    /\ row.token.payload.sub = row.user_id

\* C8: every ledger row has a whole-second issued_at, expires_at exactly 604800
\* seconds later, a token whose jti is the row id and whose exp is expires_at,
\* and an id no other row has; a row being prepared has issued_at equal to the
\* current time in whole seconds and an id not yet in the ledger.
C8_IssuedRecords ==
    /\ [](\A row \in user_tokens :
            /\ C8_RowWellFormed(row)
            /\ \A other \in user_tokens : other.id = row.id => other = row)
    /\ [][/\ \A r \in Req :
               (pc[r] \in {"idle", "done"} /\ pc'[r] = "tokenInsert")
                  => /\ C8_RowWellFormed(loc'[r].row)
                     /\ loc'[r].row.issued_at.sec = now \div 1000
                     /\ \A old \in user_tokens : old.id # loc'[r].row.id
          /\ \A row \in user_tokens' \ user_tokens :
               /\ \E r \in Req : pc[r] = "tokenInsert" /\ loc[r].row = row
               /\ \A old \in user_tokens : old.id # row.id]_vars

\* With one row in the ledger, a second one is being prepared in the middle of
\* a second, a validity window after the first.
C8_Witness ==
    \E r \in Req : \E old \in user_tokens :
        /\ pc[r] = "tokenInsert"
        /\ now % 1000 # 0
        /\ loc[r].row.issued_at = toISOString(now - (now % 1000))
        /\ loc[r].row.issued_at.sec > old.issued_at.sec

(***************************************************************************)
(* Properties of the reaction ledger, checked under SpecReact.             *)
(***************************************************************************)
SamePair(a, b) == a.event_id = b.event_id /\ a.user_id = b.user_id

\* The rows of request r's (event, user) pair.
PairRows(r) == selectExisting(event_likes, rq[r].eventId, rq[r].userId)

Wrote(calls) == Called(calls, "event_likes.insert") \/ Called(calls, "event_likes.update")

\* C9: in every reachable state, under every interleaving of the steps of
\* concurrent likeOrDislikeEvent calls, event_likes holds at most one row per
\* (event_id, user_id) pair.
C9_AtMostOneRowPerPair ==
    \A a, b \in event_likes : SamePair(a, b) => a = b

\* Two calls of one user on one event both read "no reaction yet"; the second
\* INSERT was refused by the constraint and the pair has its one row.
C9_Witness ==
    \E r \in Req :
        /\ pc[r] = "done"
        /\ resp[r] = Status(500, "SQLITE_CONSTRAINT")
        /\ Called(log[r], "event_likes.insert")
        /\ Cardinality(PairRows(r)) = 1

\* C10: when the SELECT of likeOrDislikeEvent(e,u,p) finds the stored reaction
\* of (e,u) with polarity p, the call returns { eventExists: true, updated:
\* false } in that step, with event_likes unchanged and no write sent; a call
\* that returned that way without an INSERT made no write; and when it was a
\* like on an event whose only row is that user's like, with no other request
\* in flight, the counts answered are { likes: 1, dislikes: 0 }.
C10_ToggleIdempotent ==
    /\ [](\A r \in Req :
            (loc[r].result = Returned(TRUE, FALSE)
               /\ ~Called(log[r], "event_likes.insert"))
                  => ~Wrote(log[r]))
    /\ [][\A r \in Req :
            /\ (/\ pc[r] = "selExisting" /\ pc'[r] # "selExisting"
                /\ \E row \in PairRows(r) : row.reaction = rq[r].reaction)
                  => /\ loc'[r].result = Returned(TRUE, FALSE)
                     /\ pc'[r] = "getReactions"
                     /\ event_likes' = event_likes
                     /\ ~Wrote(log'[r])
            /\ (/\ pc[r] = "getReactions" /\ pc'[r] = "done"
                /\ ~Wrote(log[r])
                /\ rq[r].reaction = 1
                /\ \A o \in Req \ {r} : pc[o] \in {"idle", "done"}
                /\ \A row \in event_likes :
                      row.event_id = rq[r].eventId
                         => row.user_id = rq[r].userId /\ row.reaction = 1)
                  => /\ resp'[r].status = 200
                     /\ resp'[r].likes = 1
                     /\ resp'[r].dislikes = 0]_vars

\* like; like by one user: both returned { true, false } and were answered
\* likes 1, dislikes 0; the second made no write, and the row still carries the
\* time of the first although the clock has moved on.
C10_Witness ==
    \E r1, r2 \in Req :
        /\ r1 # r2
        /\ pc[r1] = "done" /\ pc[r2] = "done"
        /\ rq[r1] = rq[r2] /\ rq[r1].kind = "like"
        /\ loc[r1].result = Returned(TRUE, FALSE)
        /\ loc[r2].result = Returned(TRUE, FALSE)
        /\ Called(log[r1], "event_likes.insert")
        /\ ~Wrote(log[r2])
        /\ resp[r1] = [Ok EXCEPT !.likes = 1] /\ resp[r2] = resp[r1]
        /\ \E row \in PairRows(r1) : getTime(row.created_at) < now

\* Whether the events table holds the event request r names.
EventExists(r) == \E e \in events : e.id = rq[r].eventId

\* The rows of an event with one polarity.
RowsOf(table, eventId, reaction) ==
    {row \in table : row.event_id = eventId /\ row.reaction = reaction}

Quiet(r) == \A o \in Req \ {r} : pc[o] \in {"idle", "done"}

\* C11: when the SELECT of likeOrDislikeEvent(e,u,p) finds the stored reaction
\* of (e,u) with the opposite polarity, the UPDATE is sent; when the UPDATE
\* executes on a row of the opposite polarity, no row is added or removed, the
\* other rows are untouched, the call returns { eventExists: true, updated:
\* true }, and the counts of e move by one from the old polarity to the new;
\* a dislike that flipped the user's like, the event's only row, is answered
\* { likes: 0, dislikes: 1 }.
C11_ToggleFlip ==
    [][\A r \in Req :
         LET e == rq[r].eventId
             p == rq[r].reaction
         IN
         /\ (/\ pc[r] = "selExisting" /\ pc'[r] # "selExisting"
             /\ \E row \in PairRows(r) : row.reaction = -p)
               => /\ pc'[r] = "updateLike"
                  /\ event_likes' = event_likes
         /\ (/\ pc[r] = "updateLike" /\ pc'[r] # "updateLike"
             /\ \E row \in PairRows(r) : row.reaction = -p)
               => /\ {row.id : row \in event_likes'} = {row.id : row \in event_likes}
                  /\ Cardinality(event_likes') = Cardinality(event_likes)
                  /\ \A row \in event_likes :
                        ~(row.event_id = e /\ row.user_id = rq[r].userId)
                           => row \in event_likes'
                  /\ loc'[r].result = Returned(TRUE, TRUE)
                  /\ Cardinality(RowsOf(event_likes', e, p))
                        = Cardinality(RowsOf(event_likes, e, p)) + 1
                  /\ Cardinality(RowsOf(event_likes', e, -p))
                        = Cardinality(RowsOf(event_likes, e, -p)) - 1
         /\ (/\ pc[r] = "getReactions" /\ pc'[r] = "done"
             /\ loc[r].result = Returned(TRUE, TRUE)
             /\ p = -1
             /\ Quiet(r)
             /\ \A row \in event_likes :
                   row.event_id = e => row.user_id = rq[r].userId /\ row.reaction = p)
               => /\ resp'[r].status = 200
                  /\ resp'[r].likes = 0
                  /\ resp'[r].dislikes = 1]_vars

\* like; dislike by one user on a fresh event: { true, false } then { true,
\* true }, the second answered likes 0, dislikes 1, and the one row carries the
\* id the like gave it.
C11_Witness ==
    \E r1, r2 \in Req :
        /\ r1 # r2
        /\ pc[r1] = "done" /\ pc[r2] = "done"
        /\ rq[r1].kind = "like" /\ rq[r2].kind = "dislike"
        /\ rq[r1].userId = rq[r2].userId /\ rq[r1].eventId = rq[r2].eventId
        /\ loc[r1].result = Returned(TRUE, FALSE)
        /\ loc[r2].result = Returned(TRUE, TRUE)
        /\ resp[r1] = [Ok EXCEPT !.likes = 1]
        /\ resp[r2] = [Ok EXCEPT !.dislikes = 1]
        /\ Cardinality(event_likes) = 1
        /\ \A row \in event_likes : row.reaction = -1

\* C12: a like or dislike of an event id the events table does not hold
\* returns { eventExists: false, updated: false } and is answered 404 at the
\* SELECT on events; no step of that request changes event_likes, and it sends
\* no statement but that SELECT.
C12_UnknownEvent ==
    /\ [](\A r \in Req :
            loc[r].result = Returned(FALSE, FALSE)
               => /\ log[r] = <<"events.select">>
                  /\ resp[r] = Status(404, "Event not found")
                  /\ pc[r] = "done")
    /\ [][\A r \in Req :
            (pc'[r] # pc[r] /\ rq'[r].kind \in {"like", "dislike"}
               /\ \A e \in events : e.id # rq'[r].eventId)
                  => /\ event_likes' = event_likes
                     /\ (pc[r] = "selEvent"
                           => /\ loc'[r].result = Returned(FALSE, FALSE)
                              /\ resp'[r].status = 404
                              /\ pc'[r] = "done")]_vars

\* A dislike of the unknown id was answered 404 while the ledger holds another
\* request's row for an event that exists.
C12_Witness ==
    \E r \in Req :
        /\ pc[r] = "done"
        /\ rq[r].kind = "dislike"
        /\ rq[r].eventId = UnknownEvent
        /\ loc[r].result = Returned(FALSE, FALSE)
        /\ resp[r].status = 404
        /\ events # {}
        /\ event_likes # {}

\* C13: in the step in which likeOrDislikeEvent(e,u,p) returns with
\* eventExists true, event_likes holds exactly one row for (e,u), its polarity
\* is p, and the likes and dislikes of e add up to at least 1.
C13_OneRowOfThatPolarity ==
    [][\A r \in Req :
         (/\ loc[r].result = NoResult
          /\ loc'[r].result.returned
          /\ loc'[r].result.eventExists)
            => LET pair == {row \in event_likes' :
                              /\ row.event_id = rq[r].eventId
                              /\ row.user_id = rq[r].userId}
                   counts == getEventReactions(event_likes', rq[r].eventId)
               IN /\ Cardinality(pair) = 1
                  /\ \A row \in pair : row.reaction = rq[r].reaction
                  /\ counts.likes + counts.dislikes >= 1]_vars

\* like; dislike; like by one user: the third call has returned { true, true }
\* and the pair's one row is a like again.
C13_Witness ==
    \E r \in Req :
        /\ pc[r] = "getReactions"
        /\ rq[r].kind = "like"
        /\ loc[r].result = Returned(TRUE, TRUE)
        /\ \E row \in PairRows(r) : row.reaction = 1 /\ getTime(row.created_at) > 0
        /\ \E o \in Req : rq[o].kind = "dislike" /\ rq[o].userId = rq[r].userId
                            /\ loc[o].result = Returned(TRUE, TRUE)

\* C14: getEventReactions(e) is the number of rows of e with reaction 1 and the
\* number with reaction -1, 0 and 0 for an event without rows; the counts a
\* like or dislike route answers are those of the ledger at that moment, and
\* they count the caller's own row under the polarity it just set when no
\* other request has changed it.
C14_CountsReflectLedger ==
    /\ [](\A id \in {e.id : e \in events} \cup {UnknownEvent} :
            LET counts == getEventReactions(event_likes, id) IN
            /\ counts.likes = Cardinality(RowsOf(event_likes, id, 1))
            /\ counts.dislikes = Cardinality(RowsOf(event_likes, id, -1))
            /\ (\A row \in event_likes : row.event_id # id)
                  => counts = [likes |-> 0, dislikes |-> 0])
    /\ [][\A r \in Req :
            (pc[r] = "getReactions" /\ pc'[r] = "done")
               => /\ resp'[r].status = 200
                  /\ resp'[r].likes = Cardinality(RowsOf(event_likes, rq[r].eventId, 1))
                  /\ resp'[r].dislikes
                        = Cardinality(RowsOf(event_likes, rq[r].eventId, -1))
                  /\ (\E row \in PairRows(r) : row.reaction = rq[r].reaction)
                        => IF rq[r].reaction = 1 THEN resp'[r].likes >= 1
                           ELSE resp'[r].dislikes >= 1]_vars

\* Two users reacted to one event, one with a like and one with a dislike, and
\* the second was answered likes 1, dislikes 1.
C14_Witness ==
    \E r \in Req :
        /\ pc[r] = "done"
        /\ resp[r] = [Ok EXCEPT !.likes = 1, !.dislikes = 1]
        /\ Cardinality(event_likes) = 2

\* C15: a row of event_likes is in every later state, under the same id and
\* for the same (event, user) pair, so the likes and dislikes of an event
\* together never decrease.
C15_NeverDeleted ==
    [][/\ \A row \in event_likes :
            \E new \in event_likes' : new.id = row.id /\ SamePair(new, row)
       /\ \A id \in {e.id : e \in events} :
            LET before == getEventReactions(event_likes, id)
                after == getEventReactions(event_likes', id)
            IN after.likes + after.dislikes >= before.likes + before.dislikes]_vars

\* A reaction was flipped and its row is still there, with the other user's
\* row beside it.
C15_Witness ==
    \E r \in Req :
        /\ loc[r].result = Returned(TRUE, TRUE)
        /\ Cardinality(PairRows(r)) = 1
        /\ Cardinality(event_likes) = 2

(***************************************************************************)
(* Properties of the response cache, checked under SpecCache.              *)
(***************************************************************************)
\* The full identity of a request: its path and its query string.
Url(req) == <<req.path, req.query>>

\* A step in which request r arrives and runs through the middleware.
Arrives(r) ==
    /\ cpc[r] \in {"idle", "done"}
    /\ <<cpc[r], creq[r], cres[r], clog[r]>>' # <<cpc[r], creq[r], cres[r], clog[r]>>

\* A step in which the handler of request r ends.
Settles(r) == cpc[r] = "fetch" /\ cpc'[r] = "done"

Fresh(entry) == entry.has /\ now < entry.expires

\* C16: when the handler behind createCache fails and the error goes to the
\* error handler, the cache is left as it was; and no request is answered from
\* the cache with the error handler's object.
C16_FailedNeverCached ==
    [][\A r \in Req :
         /\ (Settles(r) /\ Called(clog'[r], "errorHandler")) => cache' = cache
         /\ (Arrives(r) /\ clog'[r] = <<"res.json">>)
               => cres'[r].body.json # "object"]_vars

\* C17: a GET that arrives while the cache holds an entry for its url with
\* now < expires is answered 200 with the stored value in that step; next() and
\* the upstream fetch do not run for it and the cache is unchanged.
C17_CacheHit ==
    [][\A r \in Req :
         (/\ Arrives(r)
          /\ creq'[r].method = "GET"
          /\ Fresh(cache[Url(creq'[r])]))
            => /\ cpc'[r] = "done"
               /\ cres'[r].status = 200
               /\ cres'[r].body = cache[Url(creq'[r])].value
               /\ ~Called(clog'[r], "next")
               /\ ~Called(clog'[r], "axios.get")
               /\ cache' = cache]_vars

\* Two GETs of one url, the second half a second before the entry of the
\* first runs out: the first went upstream, the second did not, and their
\* bodies are the same non-empty array.
C17_Witness ==
    \E r1, r2 \in Req :
        /\ cpc[r1] = "done" /\ cpc[r2] = "done"
        /\ creq[r1] = creq[r2]
        /\ Called(clog[r1], "axios.get")
        /\ clog[r2] = <<"res.json">>
        /\ cres[r1].body = cres[r2].body
        /\ cres[r2].body.json = "array"
        /\ cres[r2].body.items # <<>>
        /\ cache[Url(creq[r1])].expires = now + SmallStep

\* C18: a GET is answered from the cache only when the entry of its url has
\* now < expires, and always then; a GET that finds an entry with now >=
\* expires removes it and runs the handler; and the entry the handler's answer
\* leaves expires CACHE_TTL_MS after the moment it was stored.
C18_NeverStale ==
    [][\A r \in Req :
         LET entry == cache[Url(creq'[r])] IN
         /\ (Arrives(r) /\ creq'[r].method = "GET")
               => /\ (clog'[r] = <<"res.json">>) <=> Fresh(entry)
                  /\ Fresh(entry) => cres'[r].body = entry.value
                  /\ (entry.has /\ now >= entry.expires)
                        => /\ cpc'[r] = "fetch"
                           /\ Called(clog'[r], "next")
                           /\ ~cache'[Url(creq'[r])].has
         /\ Settles(r)
               => /\ cache'[Url(creq[r])].has
                  /\ cache'[Url(creq[r])].expires = now + CACHE_TTL_MS]_vars

\* A GET arrived at the very millisecond its entry ran out: the entry, stored
\* at time 0, is gone and the request is waiting for the upstream.
C18_Witness ==
    \E r \in Req :
        /\ now = CACHE_TTL_MS
        /\ cpc[r] = "fetch"
        /\ clog[r] = <<"cache.delete", "next", "axios.get">>
        /\ ~cache[Url(creq[r])].has

\* C19: a GET that finds no entry with now < expires for its url runs the
\* handler behind a patched res.json; when the handler sends its array, the
\* cache holds exactly that array under the url of the request, expiring
\* CACHE_TTL_MS after that moment, and the caller is answered 200 with it.
C19_CacheMiss ==
    [][\A r \in Req :
         /\ (/\ Arrives(r)
             /\ creq'[r].method = "GET"
             /\ ~Fresh(cache[Url(creq'[r])]))
               => /\ cpc'[r] = "fetch"
                  /\ cres'[r].patched
                  /\ Called(clog'[r], "next")
                  /\ Called(clog'[r], "axios.get")
         /\ (Settles(r) /\ ~Called(clog'[r], "errorHandler"))
               => /\ cres'[r].status = 200
                  /\ cres'[r].body.json = "array"
                  /\ cache'[Url(creq[r])] =
                        [has |-> TRUE, expires |-> now + CACHE_TTL_MS,
                         value |-> cres'[r].body]
                  /\ \A key \in Keys \ {Url(creq[r])} : cache'[key] = cache[key]]_vars

\* Half a second in, a miss stored the mapped stop without coordinates: nulls
\* for longitude and latitude, under the url with the query string.
C19_Witness ==
    \E r \in Req :
        /\ cpc[r] = "done"
        /\ clog[r] = <<"next", "axios.get", "res.json">>
        /\ creq[r].query # ""
        /\ now = SmallStep
        /\ cres[r].body.json = "array"
        /\ Len(cres[r].body.items) = 1
        /\ cres[r].body.items[1].longitude = <<>>
        /\ cres[r].body.items[1].stop_name = "Most"
        /\ cache[Url(creq[r])].value = cres[r].body
        /\ cache[Url(creq[r])].expires = SmallStep + CACHE_TTL_MS

\* C20: the entry of a key changes only in a step of a request whose path and
\* query string are that key, and a request answered from the cache gets the
\* value stored under its own path and query string.
C20_KeysIndependent ==
    [][/\ \A key \in Keys :
            cache'[key] # cache[key]
               => \E r \in Req : (Arrives(r) \/ Settles(r)) /\ Url(creq'[r]) = key
       /\ \A r \in Req :
            (Arrives(r) /\ clog'[r] = <<"res.json">>)
               => /\ cache[Url(creq'[r])].has
                  /\ cres'[r].body = cache[Url(creq'[r])].value]_vars

\* Both urls have an entry, with different values; the one stored at time 0
\* has run out, the one stored half a second later has not.
C20_Witness ==
    \E k1, k2 \in Keys :
        /\ k1 # k2
        /\ cache[k1].has /\ cache[k2].has
        /\ cache[k1].value # cache[k2].value
        /\ cache[k1].value.json = "array" /\ cache[k2].value.json = "array"
        /\ cache[k1].expires = now
        /\ cache[k2].expires > now

\* C21: an entry leaves the cache only in the step of a GET for its own url
\* that finds it with now >= expires, and that request deletes it before the
\* handler runs; the passing of time, requests for other urls and requests
\* with another method remove nothing.
C21_LazyEviction ==
    [][\A key \in Keys :
         (cache[key].has /\ ~cache'[key].has)
            => \E r \in Req :
                  /\ Arrives(r)
                  /\ creq'[r].method = "GET"
                  /\ Url(creq'[r]) = key
                  /\ now >= cache[key].expires
                  /\ clog'[r] = <<"cache.delete", "next", "axios.get">>
                  /\ cpc'[r] = "fetch"]_vars

\* An entry that ran out is still in the map after the clock reached its
\* expiry, a POST to its url was answered 404 and a GET for the other url went
\* upstream.
C21_Witness ==
    \E key \in Keys : \E r, o \in Req :
        /\ cache[key].has
        /\ now >= cache[key].expires
        /\ Url(creq[r]) = key /\ creq[r].method = "POST" /\ cres[r].status = 404
        /\ Url(creq[o]) # key /\ cpc[o] = "fetch"

\* C22: a request waiting for the upstream got there through next(); a GET
\* that arrives while another is waiting on the same url and the url has no
\* entry goes upstream too; when a handler ends, the entry of its url holds
\* the body it sent, whatever was there, and the answers of the other
\* requests stay as they are.
C22_LastWriterWins ==
    /\ [](\A r \in Req :
            cpc[r] = "fetch"
               => Called(clog[r], "next") /\ Called(clog[r], "axios.get"))
    /\ [][\A r \in Req :
            /\ (/\ Arrives(r)
                /\ creq'[r].method = "GET"
                /\ ~cache[Url(creq'[r])].has
                /\ \E o \in Req \ {r} : cpc[o] = "fetch" /\ creq[o] = creq'[r])
                  => cpc'[r] = "fetch" /\ Called(clog'[r], "axios.get")
            /\ Settles(r)
                  => /\ cache'[Url(creq[r])].has
                     /\ cache'[Url(creq[r])].value = cres'[r].body
                     /\ \A o \in Req \ {r} : cres'[o] = cres[o]]_vars

\* Two GETs of one url at time 0 both went upstream and got different arrays;
\* the entry holds the array of the second request, not that of the first.
C22_Witness ==
    \E r1, r2 \in Req :
        /\ now = 0
        /\ cpc[r1] = "done" /\ cpc[r2] = "done"
        /\ creq[r1] = creq[r2]
        /\ Called(clog[r1], "axios.get") /\ Called(clog[r2], "axios.get")
        /\ cres[r1].body.json = "array" /\ cres[r2].body.json = "array"
        /\ cres[r1].body # cres[r2].body
        /\ cache[Url(creq[r1])].value = cres[r2].body

(***************************************************************************)
(* More properties of the session layer, checked under SpecAuth.           *)
(***************************************************************************)
\* A step in which authenticateJWT runs for request r: from the arrival of a
\* protected request to its await, or from the SELECT's return to its end.
AuthStep(r) ==
    \/ /\ pc[r] \in {"idle", "done"}
       /\ pc'[r] \in {"tokenLookup", "done"}
       /\ rq'[r].kind # "login"
       /\ <<pc[r], rq[r], resp[r], log[r]>>' # <<pc[r], rq[r], resp[r], log[r]>>
    \/ LookupStep(r)

\* C23: a step of authenticateJWT, whatever it answers, leaves user_tokens as
\* it is; a row is added only by the INSERT of generateAndStoreToken and a row
\* is removed only by the DELETE of revokeToken.
C23_AuthenticatorReadOnly ==
    [][/\ (\E r \in Req : AuthStep(r)) => user_tokens' = user_tokens
       /\ (user_tokens' \ user_tokens # {})
             => \E r \in Req : /\ pc[r] = "tokenInsert" /\ pc'[r] = "done"
                               /\ user_tokens' \ user_tokens = {loc[r].row}
       /\ (user_tokens \ user_tokens' # {})
             => \E r \in Req : /\ RevokeStep(r)
                               /\ \A row \in user_tokens \ user_tokens' :
                                     row.token = loc[r].token]_vars

\* With a session in the ledger, the authenticator has answered one request
\* "missing credential" and let the other through to its handler.
C23_Witness ==
    \E r1, r2 \in Req :
        /\ user_tokens # {}
        /\ pc[r1] = "done" /\ resp[r1] = MissingCredential
        /\ pc[r2] = "findUser" /\ Called(log[r2], "next")
        /\ \E row \in user_tokens : row.token = loc[r2].token

(***************************************************************************)
(* Concurrent reactions of one user to one event, checked under SpecReact. *)
(***************************************************************************)
\* C29: an INSERT of likeOrDislikeEvent that executes when its (event, user)
\* pair has a row already leaves event_likes as it is and ends the request
\* with the store's constraint error: no result is returned, no UPDATE and no
\* count query follow; an INSERT that finds no row for the pair adds exactly
\* the row of its own polarity.
C29_InsertRace ==
    [][\A r \in Req :
         (pc[r] = "insertLike" /\ pc'[r] # "insertLike")
            => IF PairRows(r) # {}
               THEN /\ event_likes' = event_likes
                    /\ resp'[r] = Status(500, "SQLITE_CONSTRAINT")
                    /\ pc'[r] = "done"
                    /\ ~loc'[r].result.returned
               ELSE /\ event_likes' = event_likes \cup {loc[r].like}
                    /\ loc[r].like.reaction = rq[r].reaction
                    /\ loc[r].like.user_id = rq[r].userId
                    /\ loc[r].like.event_id = rq[r].eventId
                    /\ loc'[r].result = Returned(TRUE, FALSE)]_vars

\* A like and a dislike of one user on one event both read "no reaction yet";
\* the dislike's INSERT went through and was answered with the counts, the
\* like's INSERT was refused, and the one row is a dislike.
C29_Witness ==
    \E r1, r2 \in Req :
        /\ pc[r1] = "done" /\ pc[r2] = "done"
        /\ rq[r1].kind = "like" /\ rq[r2].kind = "dislike"
        /\ rq[r1].userId = rq[r2].userId /\ rq[r1].eventId = rq[r2].eventId
        /\ log[r1] = <<"events.select", "event_likes.select", "event_likes.insert">>
        /\ resp[r1] = Status(500, "SQLITE_CONSTRAINT")
        /\ resp[r2] = [Ok EXCEPT !.dislikes = 1]
        /\ \A row \in event_likes : row.reaction = -1

\* The step in which likeOrDislikeEvent returns { eventExists: true, updated:
\* true } to request r.
ReturnsUpdated(r) ==
    loc[r].result = NoResult /\ loc'[r].result = Returned(TRUE, TRUE)

MaxIds == 2
\* length of the id lists getEventsReactions is asked about

\* The lists of ids, known and unknown, up to that length.
IdLists ==
    UNION {[1..n -> {e.id : e \in events} \cup {UnknownEvent}] : n \in 0..MaxIds}

\* The events of a list or event response, as a set.
Sent(response) == {response.events[i] : i \in 1..Len(response.events)}

\* C27: for every list of event ids, getEventsReactions gives each id of the
\* list the counts getEventReactions gives it, 0 and 0 for an event without
\* reactions; and the counts GET /events and GET /events/:id send for an event
\* are those of getEventReactions on the ledger as it is when their count
\* query executes.
C27_ListAgreesWithEvent ==
    /\ [](\A ids \in IdLists :
            LET reactionsMap == getEventsReactions(event_likes, ids) IN
            /\ DOMAIN reactionsMap = {ids[i] : i \in 1..Len(ids)}
            /\ \A i \in 1..Len(ids) :
                  reactionsMap[ids[i]] = getEventReactions(event_likes, ids[i]))
    /\ [][\A r \in Req :
            (pc[r] \in {"selReactions", "reactionsById"} /\ pc'[r] = "done")
               => /\ resp'[r].events # <<>>
                  /\ \A item \in Sent(resp'[r]) :
                        LET counts == getEventReactions(event_likes, item.id) IN
                        item.likes = counts.likes /\ item.dislikes = counts.dislikes]_vars

\* The list shows the one event, created after the clock had moved, with the
\* dislike its user flipped a like into.
C27_Witness ==
    \E r \in Req :
        /\ pc[r] = "done"
        /\ rq[r].kind = "list"
        /\ Len(resp[r].events) = 1
        /\ resp[r].events[1].likes = 0
        /\ resp[r].events[1].dislikes = 1
        /\ resp[r].events[1].timestamp > 0
        /\ \E o \in Req : loc[o].result = Returned(TRUE, TRUE)

\* C28: GET /events with a timestamp returns the events, of the type asked for
\* if one is, whose timestamp lies between three days before the given
\* timestamp and the given timestamp.
C28_TimestampWindow ==
    [][\A r \in Req :
         (pc[r] = "selEvents" /\ pc'[r] # "selEvents" /\ rq[r].timestamp.given)
            => LET given == rq[r].timestamp.ms
                   window == {e \in events :
                                /\ rq[r].type # "" => e.type = rq[r].type
                                /\ getTime(e.timestamp) >= given - EVENTS_WINDOW_MS
                                /\ getTime(e.timestamp) <= given}
                   returned == IF pc'[r] = "done" THEN {}
                               ELSE {loc'[r].events[i] : i \in 1..Len(loc'[r].events)}
               IN returned = window]_vars

(***************************************************************************)
(* Properties of the routes behind authenticateJWT, checked under          *)
(* SpecProtected.                                                          *)
(***************************************************************************)
\* The statements that write to events, event_likes or user_tokens.
WriteCalls == {"events.insert", "event_likes.insert", "event_likes.update",
               "user_tokens.delete"}

Wrote24(calls) == \E i \in 1..Len(calls) : calls[i] \in WriteCalls

\* The user id in the token the request presented.
TokenUser(r) == rq[r].header.second.payload.sub

BehindAuthenticator(r) == rq[r].kind \in Protected \cup ProtectedWrites

\* Request r takes a step.
Acts(r) == pc'[r] # pc[r] \/ log'[r] # log[r]

\* C24: the handler of a protected operation (create event, like, dislike,
\* logout, profile) runs only after the authenticator called next(): a request
\* answered 401 has sent no statement that writes to events, event_likes or
\* user_tokens and never reached its handler, a step of a protected request
\* that changes one of these tables is a step after next(), it adds no row
\* to user_tokens, and the rows it writes or deletes carry the user id of the
\* token that was presented.
C24_ProtectedBehindAuthenticator ==
    /\ [](\A r \in Req :
            BehindAuthenticator(r) =>
               /\ resp[r].status = 401 =>
                     /\ pc[r] = "done"
                     /\ ~Called(log[r], "next")
                     /\ ~Wrote24(log[r])
               /\ Wrote24(log[r]) => Called(log[r], "next")
               /\ pc[r] \notin {"idle", "done", "tokenLookup"} => Called(log[r], "next"))
    /\ [][\A r \in Req :
            (/\ BehindAuthenticator(r)
             /\ Acts(r)
             /\ <<events, event_likes, user_tokens>>' # <<events, event_likes, user_tokens>>)
            => /\ Called(log[r], "next")
               /\ resp'[r].status # 401
               /\ user_tokens' \subseteq user_tokens
               /\ \A row \in user_tokens \ user_tokens' : row.user_id = TokenUser(r)
               /\ \A row \in events' \ events : row.created_by = TokenUser(r)
               /\ \A row \in event_likes' \ event_likes : row.user_id = TokenUser(r)]_vars

\* The second user's like is in the ledger, written under their token; the
\* session was then closed, and the dislike sent with the same token was
\* answered 401 and left the row as it was.
C24_Witness ==
    /\ rq[2].kind = "dislike"
    /\ pc[2] = "done"
    /\ resp[2] = NotRecognized
    /\ TokenUser(2) = "u2"
    /\ \E row \in event_likes :
          /\ row.user_id = "u2"
          /\ row.event_id = rq[2].eventId
          /\ row.reaction = 1

(***************************************************************************)
(* Properties of registration and login, checked under SpecUsers.          *)
(***************************************************************************)
Conflict == Status(409, "Username or email already in use")

\* C25: a registration whose username or email belongs to an existing user is
\* answered 409 "Username or email already in use" and sends no INSERT; the
\* INSERT is sent only after both lookups found nothing, a row enters users
\* only by an INSERT that breaks no constraint, and no two users ever share
\* a username or an email.
C25_DuplicateRegistration ==
    /\ [](\A u, v \in users :
            u # v => u.id # v.id /\ u.username # v.username /\ u.email # v.email)
    /\ [](\A r \in Req :
            (rq[r].kind = "register" /\ resp[r].status = 409)
               => resp[r] = Conflict /\ pc[r] = "done" /\ ~Called(log[r], "users.insert"))
    /\ [][/\ \A r \in Req :
              (pc[r] = "findByUsername" /\ Acts(r)) =>
                 /\ users' = users
                 /\ pc'[r] \in {"findByEmail", "done"}
                 /\ (\E u \in users : u.username = rq[r].username)
                       => pc'[r] = "done" /\ resp'[r] = Conflict
          /\ \A r \in Req :
              (pc[r] = "findByEmail" /\ Acts(r)) =>
                 /\ users' = users
                 /\ (\E u \in users : u.email = rq[r].email)
                       => pc'[r] = "done" /\ resp'[r] = Conflict
          /\ users' # users =>
                \E r \in Req :
                   /\ pc[r] = "insertUser"
                   /\ users' = users \cup {loc[r].user}
                   /\ resp'[r].status = 201
                   /\ loc[r].user.username = rq[r].username
                   /\ loc[r].user.email = rq[r].email]_vars

\* A registration with a free username and the email of an existing user has
\* been answered 409 after its second lookup.
C25_Witness ==
    \E r \in Req :
       /\ rq[r].kind = "register"
       /\ pc[r] = "done"
       /\ resp[r] = Conflict
       /\ log[r] = <<"users.select", "users.select">>
       /\ \A u \in users : u.username # rq[r].username
       /\ \E u \in users : u.email = rq[r].email

InvalidCredentials == Status(401, "Invalid credentials")

\* The stored hash is a hash of this password.
HashOf(password, hash) == hash = bcrypt_hash(password, hash.salt)

\* C26: a login that names no account, or gives a password the account's
\* hash is not a hash of, is answered 401 "Invalid credentials": no token is
\* signed or returned and user_tokens is unchanged.  A row enters
\* user_tokens only by the INSERT of a login whose password matched the hash
\* of the account the row is for.
C26_FailedLoginIssuesNothing ==
    /\ [](\A r \in Req :
            (rq[r].kind = "login" /\ resp[r].status = 401)
               => /\ resp[r] = InvalidCredentials
                  /\ pc[r] = "done"
                  /\ ~Called(log[r], "jwt.sign")
                  /\ ~Called(log[r], "user_tokens.insert"))
    /\ [][/\ \A r \in Req :
              (/\ pc[r] = "loginFind"
               /\ Acts(r)
               /\ \A u \in users : u.username # rq[r].usernameOrEmail
                                   /\ u.email # rq[r].usernameOrEmail)
              => /\ pc'[r] = "done" /\ resp'[r] = InvalidCredentials
                 /\ user_tokens' = user_tokens /\ issued' = issued
          /\ \A r \in Req :
              (/\ pc[r] = "verifyPassword"
               /\ Acts(r)
               /\ ~HashOf(rq[r].password, loc[r].user.password_hash))
              => /\ pc'[r] = "done" /\ resp'[r] = InvalidCredentials
                 /\ user_tokens' = user_tokens /\ issued' = issued
          /\ user_tokens' # user_tokens =>
                \E r \in Req :
                   /\ pc[r] = "tokenInsert"
                   /\ rq[r].kind = "login"
                   /\ loc[r].user \in users
                   /\ HashOf(rq[r].password, loc[r].user.password_hash)
                   /\ loc[r].row.user_id = loc[r].user.id
                   /\ user_tokens' = user_tokens \cup {loc[r].row}
                   /\ issued' = issued \cup {loc[r].row.token}]_vars

\* With a session of an earlier login in the ledger, a login that named a
\* registered account with another password has been answered 401.
C26_Witness ==
    /\ user_tokens # {}
    /\ rq[2].kind = "login"
    /\ pc[2] = "done"
    /\ resp[2] = InvalidCredentials
    /\ log[2] = <<"users.select", "bcrypt.compare">>
    /\ \E u \in users : u.username = rq[2].usernameOrEmail

(***************************************************************************)
(* The frame of likeOrDislikeEvent, checked under SpecFrame.               *)
(***************************************************************************)
\* Request r is inside likeOrDislikeEvent and takes a step.
ToggleStep(r) ==
    /\ pc[r] \in {"selEvent", "selExisting", "insertLike", "updateLike"}
    /\ pc'[r] # pc[r]

OfPair(row, r) == row.event_id = rq[r].eventId /\ row.user_id = rq[r].userId

\* C31: a step of likeOrDislikeEvent(e, u, p) leaves every ledger row of
\* another pair as it was and adds or changes at most one row, a row of the
\* pair (e, u); the counts of every event other than e are the same before
\* and after the step.  In every state a pair has at most one row, so the
\* likes and dislikes of an event add up to the number of users with a row
\* on it.
C31_ToggleFrame ==
    /\ [](\A e \in events :
            LET counts == getEventReactions(event_likes, e.id)
                rows == {row \in event_likes : row.event_id = e.id}
            IN /\ counts.likes + counts.dislikes = Cardinality({row.user_id : row \in rows})
               /\ \A u \in Users :
                     Cardinality(selectExisting(event_likes, e.id, u)) <= 1)
    /\ [][\A r \in Req :
            ToggleStep(r) =>
               /\ \A row \in event_likes : ~OfPair(row, r) => row \in event_likes'
               /\ \A row \in event_likes' \ event_likes : OfPair(row, r)
               /\ Cardinality(event_likes' \ event_likes) <= 1
               /\ Cardinality(event_likes \ event_likes') <= 1
               /\ \A e \in events :
                     e.id # rq[r].eventId =>
                        getEventReactions(event_likes', e.id)
                           = getEventReactions(event_likes, e.id)]_vars

\* Both users have a reaction on one event and there is a reaction on the
\* other; a request has just flipped its user's reaction.
C31_Witness ==
    \E r \in Req :
       /\ pc[r] = "getReactions"
       /\ loc[r].result.updated
       /\ \E other \in event_likes :
             other.event_id = rq[r].eventId /\ other.user_id # rq[r].userId
       /\ \E other \in event_likes : other.event_id # rq[r].eventId

(***************************************************************************)
(* Reads of the response cache, checked under SpecCache.                   *)
(***************************************************************************)
\* Request r arrives as a GET for a url whose entry is live.
Hit(r) ==
    /\ Arrives(r)
    /\ creq'[r].method = "GET"
    /\ Fresh(cache[Url(creq'[r])])

\* C32: a GET answered from the cache leaves the whole cache as it was, the
\* entry's value and expiry included.  An entry's expiry is written only
\* when a handler's response is stored, as the time of that step plus the
\* ttl, so no number of reads moves it.
C32_HitLeavesCache ==
    [][/\ \A r \in Req :
            Hit(r) => /\ cache' = cache
                      /\ cres'[r].body = cache[Url(creq'[r])].value
       /\ \A key \in Keys :
            (cache'[key] # cache[key] /\ cache'[key].has)
               => /\ \E r \in Req : Settles(r) /\ Url(creq[r]) = key
                  /\ cache'[key].expires = now + CACHE_TTL_MS]_vars

\* A request has been answered from an entry that was stored some time
\* before: the entry still expires one ttl after it was stored.
C32_Witness ==
    \E r \in Req :
       /\ cpc[r] = "done"
       /\ clog[r] = <<"res.json">>
       /\ Fresh(cache[Url(creq[r])])
       /\ cache[Url(creq[r])].expires < now + CACHE_TTL_MS
       /\ cres[r].body = cache[Url(creq[r])].value

(***************************************************************************)
(* Login followed by authentication, checked under SpecAuth.               *)
(***************************************************************************)
\* C33: a token reaches a client only in the step in which its INSERT into
\* user_tokens has succeeded, so its row is in the ledger at that moment;
\* every token a client holds that has not been revoked has its row; and an
\* authentication with such a token, before its expiry, passes jwt.verify,
\* finds the row and calls next().
C33_ReturnedAfterInsert ==
    /\ [](\A t \in issued \ revoked : HasRow(user_tokens, t))
    /\ [][/\ \A t \in issued' \ issued :
               /\ \E row \in user_tokens' : row.id = t.payload.jti /\ row.token = t
               /\ \E r \in Req : /\ pc[r] = "tokenInsert"
                                  /\ loc[r].row.token = t
                                  /\ resp'[r] = Ok
          /\ \A r \in Req :
               (/\ pc[r] \in {"idle", "done"}
                /\ pc'[r] # pc[r]
                /\ IsProtected(r)'
                /\ rq'[r].header.first = "Bearer"
                /\ Presented(r)' \in issued
                /\ now \div 1000 < Presented(r)'.payload.exp)
               => pc'[r] = "tokenLookup"
          /\ \A r \in Req :
               (LookupStep(r) /\ loc[r].token \in issued \ revoked)
                  => /\ Called(log'[r], "next")
                     /\ resp'[r] # NotRecognized]_vars

\* No time has passed since the login that returned the token, and the
\* profile request that presented it has been answered.
C33_Witness ==
    \E r, q \in Req :
       /\ now = 0
       /\ rq[q].kind = "login" /\ pc[q] = "done" /\ resp[q] = Ok
       /\ rq[r].kind = "me" /\ pc[r] = "done" /\ resp[r] = Ok
       /\ Presented(r) \in issued
       /\ Presented(r).payload.sub = rq[q].userId
       /\ HasRow(user_tokens, Presented(r))

(***************************************************************************)
(* Login without a signing secret, checked under SpecAuth.                 *)
(***************************************************************************)
SecretNotSet == Status(500, "JWT_SECRET is not set in environment.")

\* Request r enters generateAndStoreToken.
LoginStep(r) == pc[r] \in {"idle", "done"} /\ pc'[r] # pc[r] /\ rq'[r].kind = "login"

\* C36: with no signing secret, a call of generateAndStoreToken throws in
\* the step it is made: nothing is signed, no INSERT is sent, no token is
\* returned, and user_tokens is as before.  While the secret is unset the
\* ledger stays empty and no client holds a token.
C36_NoSecretNoWrite ==
    /\ [](JWT_SECRET = "" =>
            /\ user_tokens = {}
            /\ issued = {}
            /\ \A r \in Req : pc[r] # "tokenInsert")
    /\ [][\A r \in Req :
            (LoginStep(r) /\ JWT_SECRET = "")
               => /\ pc'[r] = "done"
                  /\ resp'[r] = SecretNotSet
                  /\ log'[r] = <<>>
                  /\ user_tokens' = user_tokens
                  /\ issued' = issued]_vars

\* A login was attempted without a secret and answered with the error.
C36_Witness ==
    \E r \in Req :
       /\ JWT_SECRET = ""
       /\ rq[r].kind = "login"
       /\ pc[r] = "done"
       /\ resp[r] = SecretNotSet
       /\ nextUuid > 1
       /\ user_tokens = {}

(***************************************************************************)
(* Properties of db.js, checked under SpecDb.                              *)
(***************************************************************************)
Count(op) == Cardinality({i \in 1..Len(dblog) : dblog[i].op = op})

InFlight == attempt.at \in {"open", "readFile", "exec"}

\* A step in which open() is called.
OpenCalled == Len(dblog') = Len(dblog) + 1 /\ dblog'[Len(dblog')].op = "open"

\* C34: every call of init that has resolved holds the one connection of the
\* process; the callers that wait all wait on the attempt in flight; the
\* schema is applied at most once, and open() is called more than once only
\* after an attempt failed.  open() is called only while there is neither a
\* connection nor an attempt in flight; once there is a connection it never
\* changes, nothing is opened or applied again, and init, whatever file it
\* is given, resolves to that connection in the step it is called.
C34_InitOnce ==
    /\ [](\A c \in Callers :
            /\ call[c].state = "resolved" =>
                  dbInstance.open /\ call[c].value = dbInstance
            /\ call[c].state = "waiting" =>
                  InFlight /\ call[c].promise = dbPromise
                           /\ dbPromise = Promise(attempt.id))
    /\ [](Count("exec") <= 1 /\ Count("open") <= Count("error") + 1)
    /\ [][/\ OpenCalled => ~dbInstance.open /\ ~InFlight
          /\ dbInstance.open =>
                /\ dbInstance' = dbInstance
                /\ dblog' = dblog
                /\ attempt' = attempt
                /\ \A c \in Callers :
                      call'[c] # call[c] =>
                         call'[c].state = "resolved" /\ call'[c].value = dbInstance]_vars

\* Two callers shared one attempt and a third called init with another file
\* after it had succeeded: the three hold the same connection, and open()
\* was called once, for the file of the first call.
C34_Witness ==
    \E a, b, c \in Callers :
       /\ a # b
       /\ call[a].state = "resolved" /\ call[a].promise = Promise(1)
       /\ call[b].state = "resolved" /\ call[b].promise = Promise(1)
       /\ call[c].state = "resolved" /\ call[c].promise = NoPromise
       /\ call[c].dbFile = "other.sqlite"
       /\ call[c].value = call[a].value
       /\ call[c].value.filename = DB_FILE
       /\ Count("open") = 1

\* A step in which the attempt in flight fails.
FailStep == InFlight /\ attempt'.at = "failed"

\* C35: when an attempt fails, every caller that waits on it is rejected with
\* the error, dbPromise is cleared and dbInstance stays null; the next call
\* of init then starts a new attempt and waits on it.  getDb() throws in
\* every state in which no attempt has succeeded, and returns the connection
\* in every other.
C35_InitFailure ==
    /\ [](dbInstance.open <=> Count("exec") > 0)
    /\ [](attempt.at = "failed" => ~dbPromise.made /\ ~dbInstance.open)
    /\ [][/\ FailStep =>
                /\ dbPromise' = NoPromise
                /\ dbInstance' = dbInstance
                /\ \A c \in Callers :
                      call[c].state = "waiting" =>
                         /\ call'[c].state = "rejected"
                         /\ call'[c].error = "init failed"
          /\ \A c \in Callers :
                (attempt.at = "failed" /\ call'[c] # call[c]) =>
                   /\ attempt' = [NoAttempt EXCEPT !.id = attempt.id + 1, !.at = "open",
                                                   !.filename = filename(call'[c].dbFile)]
                   /\ dbPromise' = Promise(attempt.id + 1)
                   /\ call'[c].state = "waiting"
                   /\ call'[c].promise = dbPromise'
          /\ \A c \in Callers :
                got'[c] # got[c] =>
                   /\ got'[c].called
                   /\ got'[c].threw <=> Count("exec") = 0
                   /\ ~got'[c].threw => got'[c].value = dbInstance]_vars

\* The first attempt failed under two callers, who were both rejected; a
\* getDb() threw; a later call started the second attempt, which succeeded.
C35_Witness ==
    \E a, b, c \in Callers :
       /\ a # b
       /\ call[a].state = "rejected" /\ call[a].promise = Promise(1)
       /\ call[b].state = "rejected" /\ call[b].promise = Promise(1)
       /\ call[c].state = "resolved" /\ call[c].value.attempt > 1
       /\ got[c].threw
       /\ dbInstance = call[c].value

====
